---- MODULE Spec2Model ----
(***************************************************************************)
(* Voice-Notes-Assistant: transcript chunking and hierarchical             *)
(* summarisation (SummaryService.ts) and the plugin's single-flight task   *)
(* maps and batch runner (main.ts, stored as OpenAICompatProvider.ts).     *)
(***************************************************************************)
EXTENDS Integers, Sequences, FiniteSets, TLC

(***************************************************************************)
(* Strings.  A string is a run-length sequence <<[c, n], ...>>: n copies   *)
(* of character c.  Characters: "a" (a non-blank character), "s" (a blank  *)
(* other than newline) and "n" (the newline character).  A string is kept  *)
(* canonical: no run is empty and adjacent runs differ in their character. *)
(***************************************************************************)
Chars == {"a", "s", "n"}

Run(c, n) == [c |-> c, n |-> n]

IsBlank(c) == c \in {"s", "n"}

RECURSIVE Canon(_)
Canon(s) ==
  IF s = <<>> THEN <<>>
  ELSE LET h == Head(s)
           r == Canon(Tail(s))
       IN  IF h.n = 0 THEN r
           ELSE IF r # <<>> /\ Head(r).c = h.c
                THEN <<Run(h.c, h.n + Head(r).n)>> \o Tail(r)
                ELSE <<h>> \o r

RECURSIVE StrLen(_)
StrLen(s) == IF s = <<>> THEN 0 ELSE Head(s).n + StrLen(Tail(s))

Concat(a, b) == Canon(a \o b)

RECURSIVE TrimStart(_)
TrimStart(s) ==
  IF s = <<>> THEN <<>>
  ELSE IF IsBlank(Head(s).c) THEN TrimStart(Tail(s)) ELSE s

RECURSIVE TrimEnd(_)
TrimEnd(s) ==
  IF s = <<>> THEN <<>>
  ELSE IF IsBlank(s[Len(s)].c) THEN TrimEnd(SubSeq(s, 1, Len(s) - 1)) ELSE s

Trim(s) == TrimEnd(TrimStart(s))

RECURSIVE Take(_, _)
Take(s, k) ==
  IF k <= 0 \/ s = <<>> THEN <<>>
  ELSE IF Head(s).n <= k
       THEN <<Head(s)>> \o Take(Tail(s), k - Head(s).n)
       ELSE <<Run(Head(s).c, k)>>

RECURSIVE Drop(_, _)
Drop(s, k) ==
  IF k <= 0 \/ s = <<>> THEN s
  ELSE IF Head(s).n <= k
       THEN Drop(Tail(s), k - Head(s).n)
       ELSE <<Run(Head(s).c, Head(s).n - k)>> \o Tail(s)

\* String.prototype.slice(from, to) for 0 <= from <= to
Slice(s, from, to) == Take(Drop(s, from), to - from)

RECURSIVE JoinStr(_, _)
JoinStr(parts, sep) ==
  IF parts = <<>> THEN <<>>
  ELSE IF Len(parts) = 1 THEN parts[1]
  ELSE Concat(Concat(parts[1], sep), JoinStr(Tail(parts), sep))

\* String.prototype.split(/\n{2,}/): a maximal run of two or more newlines
\* separates two parts
RECURSIVE SplitBlankLines(_, _)
SplitBlankLines(s, cur) ==
  IF s = <<>> THEN <<cur>>
  ELSE IF Head(s).c = "n" /\ Head(s).n >= 2
       THEN <<cur>> \o SplitBlankLines(Tail(s), <<>>)
       ELSE SplitBlankLines(Tail(s), Append(cur, Head(s)))

MapTrim(parts) == [k \in 1..Len(parts) |-> Trim(parts[k])]

NonEmpty(s) == s # <<>>

Max(a, b) == IF a >= b THEN a ELSE b

Newline == <<Run("n", 1)>>
BlankLine == <<Run("n", 2)>>
Space == <<Run("s", 1)>>

(***************************************************************************)
(* SummaryService.ts: chunking                                             *)
(***************************************************************************)
DefaultChunkCharLimit == 12000
MinChunkCharLimit == 4000
SegmentOverhead == 16

normalizeText(value) == Trim(value)

\* A setting value: a finite number num/den, or something that is not a
\* finite number (missing, NaN, Infinity, a string)
resolveChunkCharLimit(configured) ==
  IF configured.kind # "number" THEN DefaultChunkCharLimit
  ELSE Max(MinChunkCharLimit, configured.num \div configured.den)

normalizeSegment(segment) ==
  [start |-> Max(0, segment.start),
   end   |-> Max(segment.start, segment.end),
   text  |-> normalizeText(segment.text)]

normalizeSegments(segments) ==
  LET kept == SelectSeq(segments, LAMBDA seg : NonEmpty(normalizeText(seg.text)))
  IN  [k \in 1..Len(kept) |-> normalizeSegment(kept[k])]

SegTexts(bucket) == [k \in 1..Len(bucket) |-> bucket[k].text]

\* a flush that keeps only the bucket's first segment
flushFirstOnly(transcription, chunks, bucket) ==
  IF Len(bucket) = 0 THEN chunks
  ELSE Append(chunks,
         [segments |-> <<bucket[1]>>,
          fullText |-> bucket[1].text,
          duration |-> Max(0, bucket[1].end - bucket[1].start)])

flush(transcription, chunks, bucket) ==
  IF Len(bucket) = 0 THEN chunks
  ELSE Append(chunks,
         [segments |-> bucket,
          fullText |-> Trim(JoinStr(SegTexts(bucket), Newline)),
          duration |-> Max(0, bucket[Len(bucket)].end - bucket[1].start)])

\* a flush only once the counter is already above the budget
ShouldFlushLate(bucket, charCount, segmentLen, maxChars) ==
  Len(bucket) > 0 /\ charCount > maxChars

ShouldFlush(bucket, charCount, segmentLen, maxChars) ==
  Len(bucket) > 0 /\ charCount + segmentLen > maxChars

RECURSIVE SegmentLoop(_, _, _, _, _, _)
SegmentLoop(transcription, segments, bucket, charCount, chunks, maxChars) ==
  IF segments = <<>> THEN flush(transcription, chunks, bucket)
  ELSE LET segment == Head(segments)
           segmentLen == StrLen(segment.text) + SegmentOverhead
           fl == ShouldFlush(bucket, charCount, segmentLen, maxChars)
           chunks2 == IF fl THEN flush(transcription, chunks, bucket) ELSE chunks
           bucket2 == IF fl THEN <<>> ELSE bucket
           count2 == IF fl THEN 0 ELSE charCount
       IN  SegmentLoop(transcription, Tail(segments), Append(bucket2, segment),
                       count2 + segmentLen, chunks2, maxChars)

splitBySegments(transcription, segments, maxChars) ==
  SegmentLoop(transcription, segments, <<>>, 0, <<>>, maxChars)

TextChunk(transcription, text) ==
  [segments |-> <<>>, fullText |-> text, duration |-> transcription.duration]

RECURSIVE ForceLoop(_, _, _, _)
ForceLoop(transcription, text, i, maxChars) ==
  IF i >= StrLen(text) THEN <<>>
  ELSE LET part == Trim(Slice(text, i, i + maxChars))
           rest == ForceLoop(transcription, text, i + maxChars, maxChars)
       IN  IF part = <<>> THEN rest
           ELSE <<TextChunk(transcription, part)>> \o rest

\* the last-resort split left out
forceSplitTextNoSplit(transcription, text, maxChars) == <<transcription>>

forceSplitText(transcription, text, maxChars) ==
  LET chunks == ForceLoop(transcription, text, 0, maxChars)
  IN  IF Len(chunks) > 0 THEN chunks ELSE <<transcription>>

\* the paragraph-merging loop: returns the list of chunk strings
RECURSIVE ParagraphLoop(_, _, _, _)
ParagraphLoop(paragraphs, current, chunks, maxChars) ==
  IF paragraphs = <<>>
  THEN IF current # <<>> THEN Append(chunks, current) ELSE chunks
  ELSE LET paragraph == Head(paragraphs)
       IN  IF current = <<>>
           THEN ParagraphLoop(Tail(paragraphs), paragraph, chunks, maxChars)
           ELSE IF StrLen(current) + StrLen(paragraph) + 2 <= maxChars
                THEN ParagraphLoop(Tail(paragraphs),
                                   Concat(Concat(current, BlankLine), paragraph),
                                   chunks, maxChars)
                ELSE ParagraphLoop(Tail(paragraphs), paragraph,
                                   Append(chunks, current), maxChars)

splitByFullText(transcription, maxChars) ==
  LET text == normalizeText(transcription.fullText)
      paragraphs == SelectSeq(MapTrim(SplitBlankLines(text, <<>>)), NonEmpty)
      chunks == ParagraphLoop(IF Len(paragraphs) > 0 THEN paragraphs ELSE <<text>>,
                              <<>>, <<>>, maxChars)
  IN  IF text = <<>> THEN <<transcription>>
      ELSE IF Len(paragraphs) <= 1 /\ StrLen(text) <= maxChars THEN <<transcription>>
      ELSE IF Len(chunks) = 1 /\ StrLen(chunks[1]) > maxChars
           THEN forceSplitText(transcription, chunks[1], maxChars)
           ELSE [k \in 1..Len(chunks) |-> TextChunk(transcription, chunks[k])]

splitTranscription(transcription, maxChars) ==
  LET validSegments == normalizeSegments(transcription.segments)
  IN  IF Len(validSegments) > 0
      THEN splitBySegments(transcription, validSegments, maxChars)
      ELSE splitByFullText(transcription, maxChars)

\* the boundary compared with >= instead of >
shouldUseHierarchicalAtLimit(enableHierarchical, configured, transcription) ==
  enableHierarchical
  /\ StrLen(normalizeText(transcription.fullText)) >= resolveChunkCharLimit(configured)

shouldUseHierarchicalSummarization(enableHierarchical, configured, transcription) ==
  LET fullText == normalizeText(transcription.fullText)
  IN  IF ~enableHierarchical THEN FALSE
      ELSE IF fullText = <<>> THEN FALSE
      ELSE StrLen(fullText) > resolveChunkCharLimit(configured)

(***************************************************************************)
(* Inputs of a summarisation run                                           *)
(***************************************************************************)
MaxRuns == 3
MaxSegs == 3

Runs ==
  {Run("a", n) : n \in {1, 4000, 12000}}
  \cup {Run(c, n) : c \in {"s", "n"}, n \in {1, 2}}

PlainTexts ==
  {Canon(s) : s \in UNION {[1..k -> Runs] : k \in 0..MaxRuns}}
  \cup { <<Run("a", 13000)>>,
         <<Run("a", 12001)>>,
         <<Run("a", 11999)>>,
         <<Run("a", 24001)>>,
         <<Run("a", 5000), Run("n", 3000), Run("a", 5000)>>,
         <<Run("a", 6000), Run("n", 2), Run("a", 6998)>>,
         <<Run("a", 12990), Run("n", 2), Run("a", 8)>>,
         <<Run("a", 6000), Run("s", 1), Run("n", 1), Run("a", 6998)>> }

SegPool ==
  { [start |-> 0, end |-> 5, text |-> <<Run("a", 1984)>>],
    [start |-> 7, end |-> 6, text |-> <<Run("a", 1985)>>],
    [start |-> -1, end |-> 2, text |-> <<Run("a", 13000)>>],
    [start |-> 2, end |-> 3, text |-> <<Run("s", 2)>>],
    [start |-> 3, end |-> 4, text |-> <<Run("s", 1), Run("a", 10), Run("n", 1)>>] }

SegLists ==
  UNION {[1..k -> SegPool] : k \in 1..MaxSegs}
  \cup { << [start |-> 0, end |-> 9, text |-> <<Run("a", 6000)>>],
            [start |-> 9, end |-> 20, text |-> <<Run("a", 6999)>>] >>,
         << [start |-> -1, end |-> 2, text |-> <<Run("a", 12999), Run("s", 1)>>] >> }

Transcripts ==
  {[segments |-> <<>>, fullText |-> t, duration |-> 60] : t \in PlainTexts}
  \cup {[segments |-> sg,
         fullText |-> Trim(JoinStr(SegTexts(sg), Newline)),
         duration |-> 60] : sg \in SegLists}

ChunkLimitSettings ==
  { [kind |-> "number", num |-> 12000, den |-> 1],
    [kind |-> "number", num |-> 7999, den |-> 2],
    [kind |-> "number", num |-> 50000, den |-> 1],
    [kind |-> "nonfinite", num |-> 0, den |-> 1] }

Summaries == {"x", "y"}

NoResult == [summary |-> "", call |-> 0]

(***************************************************************************)
(* State                                                                   *)
(***************************************************************************)
VARIABLES
  settings,          \* plugin.settings: the fields the model reads
  sumTranscription,  \* summarize(): the transcription argument
  sumPc,             \* where the summarize() call stands
  hierarchical,      \* summarizeHierarchically() was entered
  chunks,            \* summarizeHierarchically(): chunks
  chunkI,            \* summarizeHierarchically(): chunkIndex of the call in flight
  partialSummaries,  \* summarizeHierarchically(): partialSummaries
  providerCalls,     \* record of the provider.summarize calls issued
  sumReturned,       \* the SummaryRunResult summarize() resolved with
  sumValidation,     \* summarize(): what provider.validateConfig() resolved with
  sumError,          \* the error summarize() rejected with
  transcribingTasks, \* plugin.transcribingTasks: filePath -> pending task
  summarizingTasks,  \* plugin.summarizingTasks: filePath -> pending task
  tasks,             \* the runTranscriptionTask / runSummaryTask promises alive
  userCalls,         \* how many calls commands and buttons have made
  microtasks,        \* promise reactions queued: the awaits to resume, in order
  batch,             \* the batchProcessRecordings run
  cache,             \* the transcript sidecar of each audio file
  onProgress,        \* the progress callback handed to the operation
  transcribeRun,     \* a TranscriptionService.transcribeFile call
  audio,             \* an audioUtils call: its arguments and what it gave
  xfyun,             \* an XfyunProvider.pollProgress call
  recorder           \* the AudioRecorder and the plugin's recording block tracking

sumVars == <<settings, sumTranscription, sumPc, hierarchical, chunks, chunkI,
             partialSummaries, providerCalls, sumReturned, sumValidation, sumError>>

pluginVars == <<transcribingTasks, summarizingTasks, tasks, userCalls, microtasks,
                batch, cache>>

otherVars == <<onProgress, transcribeRun, audio, xfyun, recorder>>

vars == <<sumVars, pluginVars, otherVars>>

Call(phase, index, total, input, template) ==
  [phase |-> phase, index |-> index, total |-> total, input |-> input,
   template |-> template, status |-> "pending", result |-> NoResult]

SettleCall(log, status, result) ==
  [log EXCEPT ![Len(log)].status = status, ![Len(log)].result = result]

\* the SummaryRunResult of the call in flight
ResultOf(log, summary) == [summary |-> summary, call |-> Len(log)]

partialSummary(index, total, chunkResult) ==
  [index |-> index, total |-> total, summary |-> chunkResult.summary]

mergedTranscription(transcription, partials) ==
  [segments |-> <<>>, fullText |-> partials, duration |-> transcription.duration]

(***************************************************************************)
(* Plugin state: task maps, calls, batch run                               *)
(***************************************************************************)
Files == {"a", "b"}

NoTask == 0

IdleBatch ==
  [pc |-> "idle", mode |-> "transcribe", queue |-> <<>>, i |-> 0,
   succeeded |-> <<>>, failed |-> <<>>, progress |-> <<>>]

PluginIdle ==
  /\ transcribingTasks = [f \in Files |-> NoTask]
  /\ summarizingTasks = [f \in Files |-> NoTask]
  /\ tasks = <<>>
  /\ userCalls = 0
  /\ microtasks = <<>>
  /\ batch = IdleBatch
  /\ cache = [f \in Files |-> "none"]

(***************************************************************************)
(* SummaryService.summarize / summarizeHierarchically                      *)
(***************************************************************************)
\* the progress callbacks the model hands to an operation: none, one that
\* returns, one that may throw at any invocation
ProgressSinks == {"absent", "returns", "throws"}

\* this invocation of onProgress throws
Thrown(flag) == onProgress = "throws" /\ flag

\* how many commands and button clicks drive the recorder
MaxRecorderCalls == 4

\* the n-th call asks for microphone stream n and records it with
\* MediaRecorder n
Devices == 1..MaxRecorderCalls

\* AudioRecorder after construction, the plugin's tracking fields as declared
RecorderBoot ==
  [state |-> "IDLE", mediaRecorder |-> 0, stream |-> 0, stopPromise |-> "null",
   native |-> [d \in Devices |-> "none"],
   tracks |-> [d \in Devices |-> "none"],
   nativeStops |-> [d \in Devices |-> 0],
   awaitingMic |-> {}, onstop |-> 0, saving |-> FALSE,
   resolvedIn |-> "none", filePath |-> "none", lastOp |-> "none", calls |-> 0,
   recordingBlockId |-> 0, blocks |-> {}, finalizeRecordingTask |-> "null"]

OthersIdle ==
  /\ transcribeRun = [pc |-> "idle"]
  /\ audio = [op |-> "none"]
  /\ xfyun = [pc |-> "idle"]
  /\ recorder = RecorderBoot

SumInit ==
  /\ settings \in [summaryEnableHierarchical : BOOLEAN,
                   summaryChunkCharLimit : ChunkLimitSettings,
                   llmConfigValid : BOOLEAN,
                   autoSummarize : {FALSE}]
  /\ sumTranscription \in Transcripts
  /\ sumPc = "start"
  /\ hierarchical = FALSE
  /\ chunks = <<>>
  /\ chunkI = 0
  /\ partialSummaries = <<>>
  /\ providerCalls = <<>>
  /\ sumReturned = NoResult
  /\ sumValidation = "none"
  /\ sumError = ""
  /\ PluginIdle
  /\ onProgress \in {"absent", "throws"}
  /\ OthersIdle

\* provider.validateConfig(): valid, or invalid with a message naming the
\* missing field
validateConfig(valid) ==
  [valid |-> valid, message |-> IF valid THEN "valid" ELSE "field not configured"]

\* an invalid configuration let through
rejectsNever(validation) == FALSE

\* "if (!validation.valid) throw new Error(validation.message)"
rejects(validation) == ~validation.valid

\* the merge call issued right after the first chunk call
AfterChunkMergeEarly(i, n) == [pc |-> "merge", i |-> i]

\* what follows the await of chunk call i (1-based) of n: the for loop's next
\* iteration, or the merge call once the loop is over
AfterChunk(i, n) ==
  IF i < n THEN [pc |-> "chunk", i |-> i + 1] ELSE [pc |-> "merge", i |-> i]

\* a rejected chunk call swallowed: the loop goes on with the next chunk
OnChunkFailureContinue(i, n) ==
  IF i < n THEN [pc |-> "chunk", i |-> i + 1] ELSE [pc |-> "merge", i |-> i]

\* a rejected provider.summarize propagates out of summarizeHierarchically
OnChunkFailure(i, n) == [pc |-> "failed", i |-> i]

\* the last partial summary returned in place of the merge result
MergeReturnLastPartial(mergeResult, partials) ==
  [summary |-> partials[Len(partials)].summary, call |-> Len(partials)]

\* "return await provider.summarize(mergedTranscription, ...)"
MergeReturn(mergeResult, partials) == mergeResult

\* "onProgress?.(...)" ahead of the next provider call is not guarded: when it
\* throws, summarizeHierarchically rejects and the call is not issued
AfterProgress(nxt, thrown) ==
  IF thrown THEN [pc |-> "failed", i |-> nxt.i] ELSE nxt

IssueNext(nxt, log, partials) ==
  IF nxt.pc = "chunk"
  THEN Append(log, Call("chunk", nxt.i, Len(chunks), chunks[nxt.i], "chunk"))
  ELSE IF nxt.pc = "merge"
  THEN Append(log, Call("merge", 0, Len(chunks),
                        mergedTranscription(sumTranscription, partials), "merge"))
  ELSE log

\* the only chunk summarised with the chunk template, not the transcript
DirectCallOnChunk(transcription, cs) ==
  Call("single", 0, 0, IF cs = <<>> THEN transcription ELSE cs[1], "chunk")

\* "if (chunks.length <= 1) return await provider.summarize(transcription,
\* options, onProgress)"
DirectCall(transcription, cs) == Call("single", 0, 0, transcription, "original")

\* summarize(): validateConfig, then the single call or summarizeHierarchically
\* up to its first provider.summarize call
Summarize ==
  /\ UNCHANGED <<pluginVars, otherVars>>
  /\ sumPc = "start"
  /\ UNCHANGED <<settings, sumTranscription, partialSummaries, sumReturned>>
  /\ LET validation == validateConfig(settings.llmConfigValid)
     IN
     /\ sumValidation' = validation.message
     /\ IF rejects(validation)
        THEN /\ sumPc' = "failed"
             /\ sumError' = validation.message
             /\ UNCHANGED <<hierarchical, chunks, chunkI, providerCalls>>
        ELSE IF shouldUseHierarchicalSummarization(settings.summaryEnableHierarchical,
                    settings.summaryChunkCharLimit, sumTranscription)
        THEN LET chunkLimit == resolveChunkCharLimit(settings.summaryChunkCharLimit)
                 cs == splitTranscription(sumTranscription, chunkLimit)
             IN  /\ hierarchical' = TRUE
                 /\ chunks' = cs
                 /\ IF Len(cs) <= 1
                    THEN /\ sumPc' = "single"
                         /\ chunkI' = 0
                         /\ sumError' = ""
                         /\ providerCalls' = <<DirectCall(sumTranscription, cs)>>
                    ELSE \E announce \in BOOLEAN, first \in BOOLEAN :
                           IF Thrown(announce) \/ Thrown(first)
                           THEN /\ sumPc' = "failed"
                                /\ sumError' = "progress callback error"
                                /\ chunkI' = 0
                                /\ providerCalls' = <<>>
                           ELSE /\ sumPc' = "chunk"
                                /\ sumError' = ""
                                /\ chunkI' = 1
                                /\ providerCalls' =
                                     <<Call("chunk", 1, Len(cs), cs[1], "chunk")>>
        ELSE /\ sumPc' = "single"
             /\ sumError' = ""
             /\ providerCalls' = <<Call("single", 0, 0, sumTranscription, "original")>>
             /\ UNCHANGED <<hierarchical, chunks, chunkI>>

\* a chunk call resolves: push the partial summary, go on with the loop
ChunkSummarized ==
  /\ UNCHANGED <<pluginVars, otherVars>>
  /\ sumPc = "chunk"
  /\ \E s \in Summaries, throws \in BOOLEAN :
       LET settled == SettleCall(providerCalls, "ok", ResultOf(providerCalls, s))
           partials == Append(partialSummaries,
                         partialSummary(chunkI, Len(chunks), ResultOf(providerCalls, s)))
           nxt == AfterProgress(AfterChunk(chunkI, Len(chunks)), Thrown(throws))
       IN  /\ partialSummaries' = partials
           /\ sumPc' = nxt.pc
           /\ chunkI' = nxt.i
           /\ sumError' = IF nxt.pc = "failed" THEN "progress callback error" ELSE ""
           /\ providerCalls' = IssueNext(nxt, settled, partials)
  /\ UNCHANGED <<settings, sumTranscription, hierarchical, chunks, sumReturned,
                 sumValidation>>

\* a chunk call rejects
ChunkFailed ==
  /\ UNCHANGED <<pluginVars, otherVars>>
  /\ sumPc = "chunk"
  /\ LET settled == SettleCall(providerCalls, "failed", NoResult)
         nxt == OnChunkFailure(chunkI, Len(chunks))
     IN  /\ sumPc' = nxt.pc
         /\ chunkI' = nxt.i
         /\ sumError' = IF nxt.pc = "failed" THEN "provider error" ELSE ""
         /\ providerCalls' = IssueNext(nxt, settled, partialSummaries)
  /\ UNCHANGED <<settings, sumTranscription, hierarchical, chunks,
                 partialSummaries, sumReturned, sumValidation>>

MergeSummarized ==
  /\ UNCHANGED <<pluginVars, otherVars>>
  /\ sumPc = "merge"
  /\ \E s \in Summaries :
       /\ providerCalls' = SettleCall(providerCalls, "ok", ResultOf(providerCalls, s))
       /\ sumReturned' = MergeReturn(ResultOf(providerCalls, s), partialSummaries)
  /\ sumPc' = "done"
  /\ UNCHANGED <<settings, sumTranscription, hierarchical, chunks, chunkI,
                 partialSummaries, sumValidation, sumError>>

MergeFailed ==
  /\ UNCHANGED <<pluginVars, otherVars>>
  /\ sumPc = "merge"
  /\ providerCalls' = SettleCall(providerCalls, "failed", NoResult)
  /\ sumPc' = "failed"
  /\ sumError' = "provider error"
  /\ UNCHANGED <<settings, sumTranscription, hierarchical, chunks, chunkI,
                 partialSummaries, sumReturned, sumValidation>>

SingleSummarized ==
  /\ UNCHANGED <<pluginVars, otherVars>>
  /\ sumPc = "single"
  /\ \E s \in Summaries :
       /\ providerCalls' = SettleCall(providerCalls, "ok", ResultOf(providerCalls, s))
       /\ sumReturned' = ResultOf(providerCalls, s)
  /\ sumPc' = "done"
  /\ UNCHANGED <<settings, sumTranscription, hierarchical, chunks, chunkI,
                 partialSummaries, sumValidation, sumError>>

SingleFailed ==
  /\ UNCHANGED <<pluginVars, otherVars>>
  /\ sumPc = "single"
  /\ providerCalls' = SettleCall(providerCalls, "failed", NoResult)
  /\ sumPc' = "failed"
  /\ sumError' = "provider error"
  /\ UNCHANGED <<settings, sumTranscription, hierarchical, chunks, chunkI,
                 partialSummaries, sumReturned, sumValidation>>

SumNext ==
  \/ Summarize
  \/ ChunkSummarized
  \/ ChunkFailed
  \/ MergeSummarized
  \/ MergeFailed
  \/ SingleSummarized
  \/ SingleFailed

SpecSummary == SumInit /\ [][SumNext]_vars

(***************************************************************************)
(* Properties of a summarisation run                                       *)
(***************************************************************************)
ChunkLimit == resolveChunkCharLimit(settings.summaryChunkCharLimit)

TrimmedLen == StrLen(Trim(sumTranscription.fullText))

MergeCalls == {k \in 1..Len(providerCalls) : providerCalls[k].phase = "merge"}

SingleCalls == {k \in 1..Len(providerCalls) : providerCalls[k].phase = "single"}

MultiChunk == hierarchical /\ Len(chunks) >= 2

\* C4: in a hierarchical run over N >= 2 chunks the k-th provider call is the
\* call for chunk k (k = 1..N), a call is issued only when every earlier call
\* has completed, and the merge call is call N+1, issued only after all N
\* chunk calls have succeeded.
C4_ChunkCallsInOrder ==
  MultiChunk =>
    /\ Len(providerCalls) <= Len(chunks) + 1
    /\ \A k \in 1..Len(providerCalls) :
         /\ k <= Len(chunks) =>
              /\ providerCalls[k].phase = "chunk"
              /\ providerCalls[k].index = k
              /\ providerCalls[k].input = chunks[k]
         /\ k < Len(providerCalls) => providerCalls[k].status # "pending"
         /\ providerCalls[k].phase = "merge" =>
              /\ k = Len(chunks) + 1
              /\ \A j \in 1..Len(chunks) : providerCalls[j].status = "ok"

C4_Witness ==
  /\ MultiChunk
  /\ Len(chunks) >= 3
  /\ Len(providerCalls) = Len(chunks) + 1
  /\ providerCalls[Len(providerCalls)].phase = "merge"

\* C5: in a hierarchical run, a failed chunk or merge call is the last call
\* ever issued, summarize has failed, and no SummaryRunResult is returned.
C5_AllOrNothing ==
  MultiChunk =>
    \A k \in 1..Len(providerCalls) :
      providerCalls[k].status = "failed" =>
        /\ k = Len(providerCalls)
        /\ sumPc = "failed"
        /\ sumReturned = NoResult

C5_Witness ==
  /\ MultiChunk
  /\ sumPc = "failed"
  /\ Len(partialSummaries) >= 1
  /\ Len(providerCalls) < Len(chunks)
  /\ providerCalls[Len(providerCalls)].status = "failed"

\* C6: a successful hierarchical run over N >= 2 chunks has made exactly N
\* chunk calls followed by one merge call, and returns that merge call's
\* result.
C6_MergeResultReturned ==
  (MultiChunk /\ sumPc = "done") =>
    /\ Len(providerCalls) = Len(chunks) + 1
    /\ \A k \in 1..Len(chunks) : providerCalls[k].phase = "chunk"
    /\ MergeCalls = {Len(chunks) + 1}
    /\ sumReturned # NoResult
    /\ sumReturned = providerCalls[Len(chunks) + 1].result

C6_Witness ==
  /\ MultiChunk
  /\ sumPc = "done"
  /\ sumReturned.call = Len(chunks) + 1

\* C7: once the configuration has been validated, summarizeHierarchically is
\* entered iff the flag is on and the trimmed fullText is strictly longer than
\* the resolved limit; at limit 12000 a trimmed length of 12000 takes the
\* single-call path and 12001 the hierarchical path.
C7_HierarchicalBoundary ==
  (sumPc # "start" /\ settings.llmConfigValid) =>
    /\ hierarchical <=>
         (settings.summaryEnableHierarchical /\ TrimmedLen > ChunkLimit)
    /\ ~hierarchical =>
         (Len(providerCalls) = 1 /\ providerCalls[1].phase = "single")
    /\ (settings.summaryEnableHierarchical /\ ChunkLimit = 12000) =>
         /\ TrimmedLen = 12000 => ~hierarchical
         /\ TrimmedLen = 12001 => hierarchical

C7_Witness ==
  /\ hierarchical
  /\ ChunkLimit = 12000
  /\ TrimmedLen = 12001
  /\ sumPc = "done"

RECURSIVE SumCost(_)
SumCost(segments) ==
  IF segments = <<>> THEN 0
  ELSE StrLen(Trim(Head(segments).text)) + 16 + SumCost(Tail(segments))

NonBlankSegments(segments) ==
  SelectSeq(segments, LAMBDA seg : Trim(seg.text) # <<>>)

Paragraphs(text) ==
  SelectSeq(MapTrim(SplitBlankLines(Trim(text), <<>>)), NonEmpty)

\* the transcript does not fit one chunk: two or more non-blank segments whose
\* costs len+16 add up to more than the budget, or (no non-blank segment) its
\* paragraphs joined by one blank line each are longer than the budget
Splittable(transcription, budget) ==
  LET segs == NonBlankSegments(transcription.segments)
  IN  IF segs # <<>>
      THEN Len(segs) >= 2 /\ SumCost(segs) > budget
      ELSE StrLen(JoinStr(Paragraphs(transcription.fullText), BlankLine)) > budget

Scenario13000(len) ==
  /\ settings.llmConfigValid
  /\ settings.summaryEnableHierarchical
  /\ ChunkLimit = 12000
  /\ len = 13000

\* C8 as stated: every 13000-character transcript, flag on, limit 12000,
\* is split into at least 2 chunks and its run ends with exactly one merge
\* call, whose result is returned.
C8_Original ==
  (sumPc = "done" /\ Scenario13000(StrLen(sumTranscription.fullText))) =>
    /\ Len(splitTranscription(sumTranscription, 12000)) >= 2
    /\ Cardinality(MergeCalls) = 1
    /\ \A k \in MergeCalls : sumReturned = providerCalls[k].result

\* C8 amended: a transcript whose trimmed fullText has 13000 characters, flag
\* on, limit 12000, enters hierarchical mode; it is split into at least 2
\* chunks exactly when it does not fit one chunk (Splittable); then a
\* successful run ends with exactly one merge call, whose result is returned;
\* otherwise the run is one call on the original transcript and no merge call.
C8_Amended ==
  (sumPc # "start" /\ Scenario13000(TrimmedLen)) =>
    /\ hierarchical
    /\ chunks = splitTranscription(sumTranscription, 12000)
    /\ Len(chunks) >= 2 <=> Splittable(sumTranscription, 12000)
    /\ sumPc = "done" =>
         IF Len(chunks) >= 2
         THEN /\ Cardinality(MergeCalls) = 1
              /\ \A k \in MergeCalls :
                   k = Len(providerCalls) /\ sumReturned = providerCalls[k].result
         ELSE /\ MergeCalls = {}
              /\ Len(providerCalls) = 1
              /\ providerCalls[1].phase = "single"
              /\ providerCalls[1].input = sumTranscription
              /\ sumReturned = providerCalls[1].result

C8_Witness ==
  /\ Scenario13000(TrimmedLen)
  /\ sumTranscription.segments = <<>>
  /\ sumPc = "done"
  /\ Len(chunks) = 2
  /\ Cardinality(MergeCalls) = 1

RECURSIVE FlattenSegments(_)
FlattenSegments(cs) ==
  IF cs = <<>> THEN <<>> ELSE Head(cs).segments \o FlattenSegments(Tail(cs))

WellFormed(seg) == seg.start >= 0 /\ seg.end >= seg.start

\* the chunks hold the transcript's non-blank segments, each once, in order
Covers(cs, transcription) ==
  LET orig == NonBlankSegments(transcription.segments)
      got == FlattenSegments(cs)
  IN  /\ Len(got) = Len(orig)
      /\ \A k \in 1..Len(orig) :
           /\ got[k].text = Trim(orig[k].text)
           /\ WellFormed(orig[k]) =>
                (got[k].start = orig[k].start /\ got[k].end = orig[k].end)
      /\ \A k \in 1..Len(cs) :
           /\ cs[k].segments # <<>>
           /\ cs[k].fullText = JoinStr(SegTexts(cs[k].segments), Newline)

CoverageBudgets == {1, 2000, 2001, 4000, 12000, 13016, 20000}

\* C9: segment-mode chunking returns chunks whose segments, concatenated in
\* order, are the transcript's (non-blank) segments, each exactly once and in
\* the original order, and each chunk's fullText is its segments' texts joined
\* by newline: for the chunks of the run, and for every budget.
C9_SegmentCoverage ==
  NonBlankSegments(sumTranscription.segments) # <<>> =>
    /\ hierarchical => Covers(chunks, sumTranscription)
    /\ sumPc = "start" =>
         \A budget \in CoverageBudgets :
           Covers(splitTranscription(sumTranscription, budget), sumTranscription)

C9_Witness ==
  /\ hierarchical
  /\ Len(chunks) = 2
  /\ Len(sumTranscription.segments) = 3
  /\ Len(FlattenSegments(chunks)) = 3
  /\ Len(chunks[1].segments) = 2

(***************************************************************************)
(* main.ts: transcribeAudioFile / summarizeAudioFile and their tasks.      *)
(* One action is one job of the event loop: a macrotask (a command, an I/O *)
(* completion), which starts only when the microtask queue is empty, or    *)
(* the promise reaction at the head of the microtask queue.                *)
(* A settled task nothing refers to any more is kept until the next        *)
(* macrotask is over, so that what its callers were handed can be read; a  *)
(* task started by that macrotask for the same key records its outcome.    *)
(***************************************************************************)
MaxUserCalls == 3
MaxBatchLen == 2

Kinds == {"transcribe", "summarize"}

Modes == {"transcribe", "summarize", "both"}

\* the plugin state as one value, for the operators that model nested calls
Plugin ==
  [tt |-> transcribingTasks, stt |-> summarizingTasks, tasks |-> tasks,
   mq |-> microtasks, batch |-> batch, cache |-> cache]

Live(st, t) ==
  \/ st.tasks[t].pc # "settled"
  \/ \E k \in 1..Len(st.mq) : st.mq[k].task = t
  \/ \E f \in Files : st.tt[f] = t \/ st.stt[f] = t

Becomes(st) ==
  /\ transcribingTasks' = st.tt
  /\ summarizingTasks' = st.stt
  /\ tasks' = st.tasks
  /\ microtasks' = st.mq
  /\ batch' = st.batch
  /\ cache' = st.cache

\* a macrotask ends: the promises nothing referred to when it began are gone
MacrotaskBecomes(st) ==
  Becomes([st EXCEPT !.tasks =
     [t \in {u \in DOMAIN st.tasks : u \in DOMAIN tasks => Live(Plugin, u)}
        |-> st.tasks[t]]])

\* the outcomes of the settled tasks of the key that nothing refers to
Settled(st, kind, filePath) ==
  {st.tasks[u].outcome : u \in {v \in DOMAIN st.tasks :
     /\ st.tasks[v].kind = kind
     /\ st.tasks[v].key = filePath
     /\ ~Live(st, v)}}

NewTask(st) ==
  CHOOSE t \in 1..(Cardinality(DOMAIN st.tasks) + 1) :
    /\ t \notin DOMAIN st.tasks
    /\ \A u \in 1..(t - 1) : u \in DOMAIN st.tasks

AddTask(ts, t, task) ==
  [u \in DOMAIN ts \cup {t} |-> IF u = t THEN task ELSE ts[u]]

\* both kinds looked up in transcribingTasks
TaskMapShared(st, kind) == st.tt

\* this.transcribingTasks for transcribeAudioFile, this.summarizingTasks for
\* summarizeAudioFile
TaskMap(st, kind) == IF kind = "transcribe" THEN st.tt ELSE st.stt

\* the lookup never finds a pending task
existingTaskNone(st, kind, filePath) == NoTask

\* "const existingTask = this.<kind>Tasks.get(filePath)"
existingTask(st, kind, filePath) == TaskMap(st, kind)[filePath]

\* summary tasks never stored in their map
setTaskTranscribeOnly(st, kind, filePath, t) ==
  IF kind = "transcribe" THEN [st EXCEPT !.tt[filePath] = t] ELSE st

\* "this.<kind>Tasks.set(filePath, task)"
setTask(st, kind, filePath, t) ==
  IF kind = "transcribe"
  THEN [st EXCEPT !.tt[filePath] = t]
  ELSE [st EXCEPT !.stt[filePath] = t]

\* the entry removed after a success only (no finally)
deleteTaskOnSuccess(st, kind, filePath, outcome) ==
  IF outcome = "null" THEN st ELSE setTask(st, kind, filePath, NoTask)

\* "finally { this.<kind>Tasks.delete(filePath) }"
deleteTask(st, kind, filePath, outcome) == setTask(st, kind, filePath, NoTask)

\* "return await task" / "return await existingTask"
awaitedValue(task, started) == task.outcome

\* usable(x): "x?.fullText?.trim()" is truthy
Usable(value) == value = "text"

\* where a new task first suspends.  runTranscriptionTask: transcribeFile reads
\* the cached transcript if the sidecar exists, else goes to the provider.
\* runSummaryTask: resolveTranscriptionForSummary takes the argument if usable,
\* else the cached transcript, else calls transcribeAudioFile.
FirstPc(st, kind, filePath, arg) ==
  IF kind = "transcribe"
  THEN IF st.cache[filePath] = "none" THEN "run" ELSE "load"
  ELSE IF Usable(arg) THEN "summarize"
       ELSE IF st.cache[filePath] = "none" THEN "awaitTranscribe" ELSE "loadCache"

\* an await of a task by a transcribeAudioFile / summarizeAudioFile call
Await(kind, filePath, by, parent, started, settled) ==
  [kind |-> kind, key |-> filePath, by |-> by, parent |-> parent,
   started |-> started, joinedSettled |-> settled]

Reaction(t, await) == [task |-> t, await |-> await]

\* transcribeAudioFile / summarizeAudioFile up to their await: join the pending
\* task of the key, or start one and store it.  A started summary task that
\* finds no transcript calls transcribeAudioFile itself.
RECURSIVE requestOrJoin(_, _, _, _, _, _, _)
requestOrJoin(st, kind, filePath, arg, by, parent, item) ==
  LET existing == existingTask(st, kind, filePath)
      t == NewTask(st)
  IN  IF existing # NoTask
      THEN LET settled == st.tasks[existing].pc = "settled"
               await == Await(kind, filePath, by, parent, FALSE, settled)
           IN  IF settled
               THEN [st EXCEPT !.mq = Append(@, Reaction(existing, await))]
               ELSE [st EXCEPT !.tasks[existing].waiters = Append(@, await)]
      ELSE LET pc0 == FirstPc(st, kind, filePath, arg)
               task == [kind |-> kind, key |-> filePath, pc |-> pc0,
                        outcome |-> "pending", item |-> item,
                        waiters |-> <<Await(kind, filePath, by, parent, TRUE, FALSE)>>,
                        returned |-> <<>>,
                        after |-> Settled(st, kind, filePath)]
               st1 == setTask([st EXCEPT !.tasks = AddTask(@, t, task)],
                              kind, filePath, t)
           IN  IF kind = "summarize" /\ pc0 = "awaitTranscribe"
               THEN requestOrJoin(st1, "transcribe", filePath, "none", "nested",
                                  t, item)
               ELSE st1

\* the task's promise resolves: the reactions of its awaiters are queued
settle(st, t, outcome) ==
  [st EXCEPT !.tasks[t].pc = "settled",
             !.tasks[t].outcome = outcome,
             !.tasks[t].waiters = <<>>,
             !.mq = @ \o [k \in 1..Len(st.tasks[t].waiters) |->
                            Reaction(t, st.tasks[t].waiters[k])]]

\* runTranscriptionTask after transcribeFile: with a result, the detached
\* summarizeAudioFile if autoSummarize is on, then return runResult; after a
\* throw, return null
transcriptionFinished(st, t, value) ==
  IF value = "null" THEN settle(st, t, "null")
  ELSE LET st1 == IF settings.autoSummarize
                  THEN requestOrJoin(st, "summarize", st.tasks[t].key, value,
                                     "auto", NoTask, st.tasks[t].item)
                  ELSE st
       IN  settle(st1, t, value)

\* resolveTranscriptionForSummary after "await this.transcribeAudioFile(...)"
nestedReturned(st, p, value) ==
  IF Usable(value) THEN [st EXCEPT !.tasks[p].pc = "summarize"]
  ELSE settle(st, p, "null")

(***************************************************************************)
(* main.ts: batchProcessRecordings                                         *)
(***************************************************************************)
RECURSIVE Dedupe(_, _)
Dedupe(list, seen) ==
  IF list = <<>> THEN <<>>
  ELSE IF Head(list) = "" \/ Head(list) \in seen THEN Dedupe(Tail(list), seen)
       ELSE <<Head(list)>> \o Dedupe(Tail(list), seen \cup {Head(list)})

\* "Array.from(new Set(filePaths.filter(Boolean)))"
batchQueue(filePaths) == Dedupe(filePaths, {})

\* which of the onProgress invocations of one step of the loop throw: the
\* one after a success, the one in the catch block, the one opening an item
NoThrow == [ok |-> FALSE, failed |-> FALSE, start |-> FALSE]

ThrowChoices ==
  IF onProgress = "throws"
  THEN [ok : BOOLEAN, failed : BOOLEAN, start : BOOLEAN]
  ELSE {NoThrow}

\* progress events numbered from 0
progressEventFromZero(b, step, message) ==
  [mode |-> b.mode, current |-> step - 1, total |-> Len(b.queue),
   filePath |-> b.queue[step], message |-> message]

\* "{ mode, current: step, total: queue.length, filePath, message }"
progressEvent(b, step, message) ==
  [mode |-> b.mode, current |-> step, total |-> Len(b.queue),
   filePath |-> b.queue[step], message |-> message]

\* "onProgress?.({...})": the event handed to the callback, if there is one
report(st, step, message) ==
  IF onProgress = "absent" THEN st
  ELSE [st EXCEPT !.batch.progress =
          Append(@, progressEvent(st.batch, step, message))]

\* an error leaves batchProcessRecordings: its promise rejects
batchRejected(st) == [st EXCEPT !.batch.pc = "rejected"]

\* the loop body up to its first await, or the return after the last item
batchStartItem(st, i, th) ==
  IF i > Len(st.batch.queue) THEN [st EXCEPT !.batch.pc = "done", !.batch.i = i]
  ELSE LET st1 == report([st EXCEPT !.batch.i = i], i, "start")
       IN  IF Thrown(th.start) THEN batchRejected(st1)
           ELSE IF st.batch.mode \in {"transcribe", "both"}
           THEN requestOrJoin([st1 EXCEPT !.batch.pc = "awaitTranscribe"],
                              "transcribe", st.batch.queue[i], "none", "batch",
                              NoTask, i)
           ELSE requestOrJoin([st1 EXCEPT !.batch.pc = "awaitSummarize"],
                              "summarize", st.batch.queue[i], "none", "batch",
                              NoTask, i)

batchSucceeded(st) ==
  [st EXCEPT !.batch.succeeded = Append(@, st.batch.queue[st.batch.i])]

batchFailed(st, reason) ==
  [st EXCEPT !.batch.failed =
     Append(@, [filePath |-> st.batch.queue[st.batch.i], reason |-> reason])]

\* the first failed item ends the batch
batchCatchAborts(st, reason, th) ==
  [batchFailed(st, reason) EXCEPT !.batch.pc = "done"]

\* the catch block, then the next iteration
batchCatch(st, reason, th) ==
  LET st1 == report(batchFailed(st, reason), st.batch.i, "failed")
  IN  IF Thrown(th.failed) THEN batchRejected(st1)
      ELSE batchStartItem(st1, st.batch.i + 1, th)

\* the end of the try block: push, report; a throw of the callback is caught
\* by the catch block of the item
batchItemDone(st, th) ==
  LET st1 == report(batchSucceeded(st), st.batch.i, "ok")
  IN  IF Thrown(th.ok) THEN batchCatch(st1, "progress callback error", th)
      ELSE batchStartItem(st1, st.batch.i + 1, th)

\* the loop after an awaited transcribeAudioFile / summarizeAudioFile returned
batchContinue(st, value, th) ==
  LET b == st.batch
  IN  IF b.pc = "awaitTranscribe"
      THEN IF ~Usable(value)
           THEN batchCatch(st, "no transcript text", th)
           ELSE IF b.mode = "both"
           THEN requestOrJoin([st EXCEPT !.batch.pc = "awaitSummarize"],
                              "summarize", b.queue[b.i], value, "batch", NoTask, b.i)
           ELSE batchItemDone(st, th)
      ELSE IF value # "summary"
           THEN batchCatch(st, "no summary text", th)
           ELSE batchItemDone(st, th)

\* the reaction of an "await task" / "await existingTask": the call returns the
\* task's outcome, the starter's finally deletes the entry, and the caller
\* awaiting the call goes on
resume(st, r, th) ==
  LET await == r.await
      value == awaitedValue(st.tasks[r.task], await.started)
      st1 == [st EXCEPT !.tasks[r.task].returned = Append(@, value)]
      st2 == IF await.started
             THEN deleteTask(st1, await.kind, await.key, value)
             ELSE st1
  IN  IF await.by = "nested" THEN nestedReturned(st2, await.parent, value)
      ELSE IF await.by = "batch" THEN batchContinue(st2, value, th)
      ELSE st2

(***************************************************************************)
(* Plugin actions                                                          *)
(***************************************************************************)
PluginBoot ==
  /\ settings \in [summaryEnableHierarchical : {TRUE},
                   summaryChunkCharLimit : {[kind |-> "number", num |-> 12000, den |-> 1]},
                   llmConfigValid : {TRUE},
                   autoSummarize : BOOLEAN]
  /\ sumTranscription = [segments |-> <<>>, fullText |-> <<>>, duration |-> 0]
  /\ sumPc = "idle"
  /\ hierarchical = FALSE
  /\ chunks = <<>>
  /\ chunkI = 0
  /\ partialSummaries = <<>>
  /\ providerCalls = <<>>
  /\ sumReturned = NoResult
  /\ sumValidation = "none"
  /\ sumError = ""
  /\ PluginIdle
  /\ OthersIdle

\* a command or button calls transcribeAudioFile(f) / summarizeAudioFile(f)
CallWithin(limit) ==
  /\ microtasks = <<>>
  /\ userCalls < limit
  /\ userCalls' = userCalls + 1
  /\ \E kind \in Kinds, f \in Files :
       MacrotaskBecomes(requestOrJoin(Plugin, kind, f, "none", "user", NoTask, 0))
  /\ UNCHANGED <<sumVars, otherVars>>

UserCall == CallWithin(MaxUserCalls)

\* a command or the recordings modal calls batchProcessRecordings
BatchStart ==
  /\ microtasks = <<>>
  /\ batch.pc = "idle"
  /\ \E mode \in Modes, th \in ThrowChoices,
        filePaths \in UNION {[1..n -> Files \cup {""}] : n \in 0..MaxBatchLen} :
       MacrotaskBecomes(batchStartItem(
         [Plugin EXCEPT !.batch.mode = mode,
                        !.batch.queue = batchQueue(filePaths)], 1, th))
  /\ UNCHANGED <<sumVars, userCalls, otherVars>>

\* transcribeFile: the cached transcript has been read
TranscriptLoaded ==
  /\ microtasks = <<>>
  /\ \E t \in DOMAIN tasks :
       /\ tasks[t].kind = "transcribe"
       /\ tasks[t].pc = "load"
       /\ IF cache[tasks[t].key] = "text"
          THEN MacrotaskBecomes(transcriptionFinished(Plugin, t, "text"))
          ELSE MacrotaskBecomes([Plugin EXCEPT !.tasks[t].pc = "run"])
  /\ UNCHANGED <<sumVars, userCalls, otherVars>>

\* transcribeFile: validation, provider.transcribe and cache.save are over,
\* with a transcript (with or without text) saved, or with a throw
TranscriptionDone ==
  /\ microtasks = <<>>
  /\ \E t \in DOMAIN tasks, value \in {"text", "blank", "null"} :
       /\ tasks[t].kind = "transcribe"
       /\ tasks[t].pc = "run"
       /\ LET st1 == IF value = "null" THEN Plugin
                     ELSE [Plugin EXCEPT !.cache[tasks[t].key] = value]
          IN  MacrotaskBecomes(transcriptionFinished(st1, t, value))
  /\ UNCHANGED <<sumVars, userCalls, otherVars>>

\* resolveTranscriptionForSummary: getCachedTranscription has read the sidecar
SummaryCacheLoaded ==
  /\ microtasks = <<>>
  /\ \E t \in DOMAIN tasks :
       /\ tasks[t].kind = "summarize"
       /\ tasks[t].pc = "loadCache"
       /\ IF Usable(cache[tasks[t].key])
          THEN MacrotaskBecomes([Plugin EXCEPT !.tasks[t].pc = "summarize"])
          ELSE MacrotaskBecomes(requestOrJoin(
                 [Plugin EXCEPT !.tasks[t].pc = "awaitTranscribe"],
                 "transcribe", tasks[t].key, "none", "nested", t, tasks[t].item))
  /\ UNCHANGED <<sumVars, userCalls, otherVars>>

\* runSummaryTask: summaryService.summarize and saveSummarySidecar are over
SummaryDone ==
  /\ microtasks = <<>>
  /\ \E t \in DOMAIN tasks, value \in {"summary", "null"} :
       /\ tasks[t].kind = "summarize"
       /\ tasks[t].pc = "summarize"
       /\ MacrotaskBecomes(settle(Plugin, t, value))
  /\ UNCHANGED <<sumVars, userCalls, otherVars>>

\* the reaction at the head of the microtask queue runs
RunMicrotask ==
  /\ microtasks # <<>>
  /\ \E th \in ThrowChoices :
       Becomes(resume([Plugin EXCEPT !.mq = Tail(@)], Head(microtasks), th))
  /\ UNCHANGED <<sumVars, userCalls, otherVars>>

Next ==
  \/ UserCall
  \/ TranscriptLoaded
  \/ TranscriptionDone
  \/ SummaryCacheLoaded
  \/ SummaryDone
  \/ RunMicrotask

PluginInit == PluginBoot /\ onProgress = "absent"

Spec == PluginInit /\ [][Next]_vars

BatchNext ==
  \/ BatchStart
  \/ TranscriptLoaded
  \/ TranscriptionDone
  \/ SummaryCacheLoaded
  \/ SummaryDone
  \/ RunMicrotask

BatchInit == PluginBoot /\ onProgress \in ProgressSinks

SpecBatch == BatchInit /\ [][BatchNext]_vars

(***************************************************************************)
(* Properties of the task maps                                             *)
(***************************************************************************)
Running(kind, filePath) ==
  {t \in DOMAIN tasks : /\ tasks[t].kind = kind
                        /\ tasks[t].key = filePath
                        /\ tasks[t].pc # "settled"}

Entry(kind, filePath) ==
  IF kind = "transcribe" THEN transcribingTasks[filePath]
  ELSE summarizingTasks[filePath]

\* the awaits not yet resumed, each with the task it awaits
Awaits ==
  UNION {{[task |-> t, await |-> tasks[t].waiters[k]] :
            k \in 1..Len(tasks[t].waiters)} : t \in DOMAIN tasks}
  \cup {microtasks[k] : k \in 1..Len(microtasks)}

\* C1: for every kind and file at most one runTranscriptionTask /
\* runSummaryTask is running at a time (a call arriving while one runs starts
\* no second one), and every call that awaited a task, the one that started it
\* as well as those that joined it while it ran, was handed that task's
\* settled outcome.
C1_SingleFlight ==
  /\ \A kind \in Kinds, f \in Files : Cardinality(Running(kind, f)) <= 1
  /\ \A t \in DOMAIN tasks :
       /\ tasks[t].pc # "settled" => tasks[t].returned = <<>>
       /\ \A k \in 1..Len(tasks[t].returned) :
            tasks[t].returned[k] = tasks[t].outcome

\* C1 happens: a task settled, and two calls, the second of which joined it
\* while it ran, have both been handed its outcome
C1_Witness ==
  \E t \in DOMAIN tasks :
    /\ tasks[t].pc = "settled"
    /\ Len(tasks[t].returned) >= 2
    /\ tasks[t].outcome \in {"text", "summary"}

\* C2: whenever the event loop is between macrotasks, which is when a command
\* can call transcribeAudioFile / summarizeAudioFile, the map has an entry for
\* a key exactly when a task for that key is running, and the entry is that
\* task; an entry whose task has settled, with any outcome, is deleted by the
\* reaction already queued for the call that started it; and no call ever
\* joins a task that has settled, so a call made after a settle starts a
\* fresh task.
C2_EntryRemovedOnSettle ==
  /\ \A kind \in Kinds, f \in Files :
       LET e == Entry(kind, f)
       IN  /\ microtasks = <<>> =>
                IF e = NoTask THEN Running(kind, f) = {}
                ELSE Running(kind, f) = {e}
           /\ (e # NoTask /\ e \notin Running(kind, f)) =>
                \E k \in 1..Len(microtasks) :
                  /\ microtasks[k].task = e
                  /\ microtasks[k].await.started
  /\ \A a \in Awaits : ~a.await.joinedSettled

\* C2 happens: a task for a key settled with a failure and nothing referred
\* to it any more, and the next call for that key has started a fresh task,
\* which the map holds
C2_Witness ==
  \E u \in DOMAIN tasks :
    /\ "null" \in tasks[u].after
    /\ tasks[u].pc # "settled"
    /\ Entry(tasks[u].kind, tasks[u].key) = u
    /\ tasks[u].waiters # <<>>
    /\ tasks[u].waiters[1].started

BatchTasks == {t \in DOMAIN tasks : tasks[t].item > 0 /\ tasks[t].pc # "settled"}

\* such a task is at its provider
InBackend(t) == t \in BatchTasks /\ tasks[t].pc \in {"run", "summarize"}

(***************************************************************************)
(* Properties of a batch run                                               *)
(***************************************************************************)
\* the items the loop is through with
Processed ==
  IF batch.pc \in {"idle"} THEN 0
  ELSE IF batch.pc \in {"done"} THEN Len(batch.queue)
  ELSE batch.i - 1

FailedPaths == {batch.failed[k].filePath : k \in 1..Len(batch.failed)}

SucceededPaths == {batch.succeeded[k] : k \in 1..Len(batch.succeeded)}

\* list is queue restricted to the paths in keep, in queue order
InQueueOrder(list, keep) ==
  list = SelectSeq(batch.queue, LAMBDA f : f \in keep)

\* C11: with a progress callback that does not throw, a batch run is never
\* rejected or ended by a failed item: the items the loop is through with are
\* a prefix of the de-duplicated input list, the run is done only when it is
\* through with all of them, each of them is either in succeeded or in failed
\* (with a reason), and succeeded and failed list them in input order.
C11_BatchPartialFailure ==
  onProgress # "throws" =>
    /\ batch.pc \in {"idle", "awaitTranscribe", "awaitSummarize", "done"}
    /\ batch.pc = "done" => batch.i = Len(batch.queue) + 1
    /\ batch.pc \in {"awaitTranscribe", "awaitSummarize"} =>
         batch.i \in 1..Len(batch.queue)
    /\ LET through == {batch.queue[k] : k \in 1..Processed}
       IN  /\ SucceededPaths \cup FailedPaths = through
           /\ SucceededPaths \cap FailedPaths = {}
           /\ InQueueOrder(batch.succeeded, SucceededPaths)
           /\ InQueueOrder([k \in 1..Len(batch.failed) |-> batch.failed[k].filePath],
                           FailedPaths)
           /\ \A k \in 1..Len(batch.failed) : batch.failed[k].reason # ""

\* C11 happens: the first item failed, the second was still attempted and
\* succeeded, and the run is done
C11_Witness ==
  /\ onProgress # "throws"
  /\ batch.pc = "done"
  /\ batch.queue = <<"b", "a">>
  /\ batch.succeeded = <<"a">>
  /\ Len(batch.failed) = 1
  /\ batch.failed[1].filePath = "b"

\* the events reported for the item at position k once it has been processed
Completion(k) ==
  SelectSeq(batch.progress,
            LAMBDA e : e.current = k /\ e.message \in {"ok", "failed"})

\* C12: with a progress callback that returns, every item the loop is through
\* with has exactly one completion event, carrying its 1-based position, the
\* queue length as total and its path, and saying ok exactly when the item is
\* in succeeded; every event has total = queue length and the path of its
\* position; and the events appear in the order of the positions.
C12_BatchProgress ==
  onProgress = "returns" =>
    /\ \A k \in 1..Len(batch.queue) :
         /\ Len(Completion(k)) = IF k <= Processed THEN 1 ELSE 0
         /\ k <= Processed =>
              (Completion(k)[1].message = "ok" <=> batch.queue[k] \in SucceededPaths)
    /\ \A n \in 1..Len(batch.progress) :
         /\ batch.progress[n].total = Len(batch.queue)
         /\ batch.progress[n].current \in 1..Len(batch.queue)
         /\ batch.progress[n].filePath = batch.queue[batch.progress[n].current]
         /\ batch.progress[n].mode = batch.mode
         /\ n > 1 => batch.progress[n - 1].current <= batch.progress[n].current

\* C12 happens: a run of two items is done, one failed and one succeeded, and
\* each has its start event and its completion event
C12_Witness ==
  /\ onProgress = "returns"
  /\ batch.pc = "done"
  /\ Len(batch.queue) = 2
  /\ Len(batch.succeeded) = 1
  /\ Len(batch.failed) = 1
  /\ Len(batch.progress) = 4
  /\ batch.progress[2].message = "failed"
  /\ batch.progress[4].message = "ok"

\* C14: a progress callback that throws changes nothing of a batch run or of a
\* hierarchical summarization: the batch is not rejected, no item is recorded
\* as failed because of the callback (so none is in both lists), and summarize
\* never fails with the callback's error.  (Violated: no onProgress call is
\* guarded; in the batch the one opening an item and the one in the catch
\* block are outside the try, and the one after a success is inside it.)
C14_ProgressNeverAborts ==
  /\ batch.pc # "rejected"
  /\ SucceededPaths \cap FailedPaths = {}
  /\ \A k \in 1..Len(batch.failed) :
       batch.failed[k].reason # "progress callback error"
  /\ sumError # "progress callback error"

\* C10: during a batch run at most one transcription or summarization started
\* on behalf of the batch is at its provider at a time, and no task of a later
\* item runs while a task of an earlier item is still running.  (Violated:
\* with autoSummarize on, the summary that runTranscriptionTask starts without
\* awaiting it is still running when the batch begins the next item.)
C10_BatchSequential ==
  \A t \in BatchTasks, u \in BatchTasks :
    /\ (InBackend(t) /\ InBackend(u)) => t = u
    /\ tasks[t].item = tasks[u].item

(***************************************************************************)
(* TranscriptionService.transcribeFile, and the summary of its result      *)
(***************************************************************************)
\* the transcripts a provider returns or a sidecar holds here: no segments,
\* a fullText of at most one run of characters
\* a transcript with one segment and no fullText
SegmentsOnly ==
  [segments |-> <<[start |-> 0, end |-> 5, text |-> <<Run("a", 1)>>]>>,
   fullText |-> <<>>, duration |-> 5]

ServiceTranscripts ==
  {t \in Transcripts : t.segments = <<>> /\ Len(t.fullText) <= 1}
    \cup {SegmentsOnly}

NoTranscript == [segments |-> <<>>, fullText |-> <<>>, duration |-> 0]

\* the segments not looked at
cachedHasContentTextOnly(cached) == Trim(cached.fullText) # <<>>

\* "Boolean(cached.fullText?.trim()) || cached.segments.length > 0"
cachedHasContent(cached) ==
  Trim(cached.fullText) # <<>> \/ Len(cached.segments) > 0

outsideServices == <<pluginVars, onProgress, audio, xfyun, recorder>>

ServicesInit ==
  /\ settings \in [summaryEnableHierarchical : {TRUE},
                   summaryChunkCharLimit : {[kind |-> "number", num |-> 12000, den |-> 1]},
                   llmConfigValid : BOOLEAN,
                   autoSummarize : {FALSE}]
  /\ sumTranscription = NoTranscript
  /\ sumPc = "idle"
  /\ hierarchical = FALSE
  /\ chunks = <<>>
  /\ chunkI = 0
  /\ partialSummaries = <<>>
  /\ providerCalls = <<>>
  /\ sumReturned = NoResult
  /\ sumValidation = "none"
  /\ sumError = ""
  /\ PluginIdle
  /\ onProgress = "absent"
  /\ audio = [op |-> "none"]
  /\ xfyun = [pc |-> "idle"]
  /\ recorder = RecorderBoot
  /\ \E valid \in BOOLEAN, exists \in BOOLEAN, cached \in ServiceTranscripts :
       /\ exists \/ cached = NoTranscript
       /\ transcribeRun =
            [pc |-> "start", configValid |-> valid,
             sidecar |-> [exists |-> exists, content |-> cached],
             log |-> <<>>, error |-> "", result |-> NoTranscript,
             fromCache |-> FALSE]

\* transcribeFile up to its first backend await: cache.load, the cached
\* result if it has content, else validateConfig and, if valid, readBinary
TranscribeFile ==
  /\ transcribeRun.pc = "start"
  /\ LET run == [transcribeRun EXCEPT !.log = Append(@, "cache.load")]
         validation == validateConfig(run.configValid)
     IN  IF run.sidecar.exists /\ cachedHasContent(run.sidecar.content)
         THEN transcribeRun' = [run EXCEPT !.pc = "done",
                                           !.result = run.sidecar.content,
                                           !.fromCache = TRUE]
         ELSE IF rejects(validation)
         THEN transcribeRun' = [run EXCEPT !.pc = "failed",
                                           !.log = Append(@, "validateConfig"),
                                           !.error = validation.message]
         ELSE transcribeRun' = [run EXCEPT !.pc = "read",
                                           !.log = @ \o <<"validateConfig",
                                                           "readBinary">>]
  /\ UNCHANGED <<sumVars, outsideServices>>

\* readBinary resolves, and provider.transcribe is called, or it rejects
AudioRead ==
  /\ transcribeRun.pc = "read"
  /\ \/ transcribeRun' = [transcribeRun EXCEPT !.pc = "transcribe",
                             !.log = Append(@, "provider.transcribe")]
     \/ transcribeRun' = [transcribeRun EXCEPT !.pc = "failed",
                             !.error = "read error"]
  /\ UNCHANGED <<sumVars, outsideServices>>

\* provider.transcribe resolves, and cache.save is called, or it rejects
Transcribed ==
  /\ transcribeRun.pc = "transcribe"
  /\ \/ \E result \in ServiceTranscripts :
          transcribeRun' = [transcribeRun EXCEPT !.pc = "save",
                               !.result = result,
                               !.log = Append(@, "cache.save")]
     \/ transcribeRun' = [transcribeRun EXCEPT !.pc = "failed",
                             !.error = "provider error"]
  /\ UNCHANGED <<sumVars, outsideServices>>

\* cache.save resolves: the sidecar holds the result; or it rejects
TranscriptSaved ==
  /\ transcribeRun.pc = "save"
  /\ \/ transcribeRun' = [transcribeRun EXCEPT !.pc = "done",
                             !.sidecar = [exists |-> TRUE,
                                          content |-> transcribeRun.result]]
     \/ transcribeRun' = [transcribeRun EXCEPT !.pc = "failed",
                             !.result = NoTranscript,
                             !.error = "save error"]
  /\ UNCHANGED <<sumVars, outsideServices>>

\* runSummaryTask: a transcript with text goes to summaryService.summarize
RunSummaryTask ==
  /\ transcribeRun.pc = "done"
  /\ sumPc = "idle"
  /\ Trim(transcribeRun.result.fullText) # <<>>
  /\ sumTranscription' = transcribeRun.result
  /\ sumPc' = "start"
  /\ UNCHANGED <<settings, hierarchical, chunks, chunkI, partialSummaries,
                 providerCalls, sumReturned, sumValidation, sumError>>
  /\ UNCHANGED <<pluginVars, otherVars>>

ServicesNext ==
  \/ TranscribeFile
  \/ AudioRead
  \/ Transcribed
  \/ TranscriptSaved
  \/ RunSummaryTask
  \/ Summarize
  \/ ChunkSummarized
  \/ ChunkFailed
  \/ MergeSummarized
  \/ MergeFailed
  \/ SingleSummarized
  \/ SingleFailed

SpecServices == ServicesInit /\ [][ServicesNext]_vars

\* the positions of an event in the log of the transcribeFile call
At(event) ==
  {k \in 1..Len(transcribeRun.log) : transcribeRun.log[k] = event}

\* C13: a provider summarize call is issued only after validateConfig was
\* invoked and reported valid, and so is provider.transcribe (and the read of
\* the audio and the write of the cache around it); when validateConfig
\* reports invalid, summarize / transcribeFile fails with the validation
\* message and no provider call is ever issued.
C13_ValidationGating ==
  /\ providerCalls # <<>> => (sumValidation = "valid" /\ settings.llmConfigValid)
  /\ (sumValidation # "none" /\ ~settings.llmConfigValid) =>
       /\ sumPc = "failed"
       /\ sumError = validateConfig(FALSE).message
       /\ sumError = sumValidation
       /\ providerCalls = <<>>
  /\ \A k \in At("provider.transcribe") \cup At("readBinary") \cup At("cache.save") :
       /\ transcribeRun.configValid
       /\ \E j \in At("validateConfig") : j < k
  /\ (At("validateConfig") # {} /\ ~transcribeRun.configValid) =>
       /\ transcribeRun.pc = "failed"
       /\ transcribeRun.error = validateConfig(FALSE).message
       /\ At("provider.transcribe") = {}

\* C13 happens: a transcribeFile call validated its configuration, called the
\* provider and is done, and the summary of its result was refused by
\* validateConfig before any provider call
C13_Witness ==
  /\ transcribeRun.pc = "done"
  /\ At("provider.transcribe") # {}
  /\ sumPc = "failed"
  /\ sumValidation = validateConfig(FALSE).message
  /\ providerCalls = <<>>

(***************************************************************************)
(* utils/audioUtils.ts.  A buffer is its RIFF header (head: how many of    *)
(* its 12 bytes are there, and the two tags) and its chunks; a chunk has   *)
(* the size its header declares, and the payload bytes that are present.   *)
(* PCM data is a sequence of 16-bit samples; a Float32 sample is the       *)
(* numerator of a fraction over SampleDen, which is exact for every value  *)
(* used (17 significant bits).                                             *)
(***************************************************************************)
MaxSamples == 3

WavHeaderBytes == 44
Int16Scale == 32768
PositiveScale == 32767

SampleDen == 4 * Int16Scale

Min(a, b) == IF a <= b THEN a ELSE b

Chunk(id, size, present) ==
  [id |-> id, size |-> size, present |-> present,
   numChannels |-> 0, sampleRate |-> 0, bitsPerSample |-> 0, samples |-> <<>>]

FmtChunk(numChannels, sampleRate, bitsPerSample) ==
  [Chunk("fmt ", 16, 16) EXCEPT !.numChannels = numChannels,
                                !.sampleRate = sampleRate,
                                !.bitsPerSample = bitsPerSample]

DataChunk(samples) ==
  [Chunk("data", 2 * Len(samples), 2 * Len(samples)) EXCEPT !.samples = samples]

Buffer(riff, wave, chunkList) ==
  [head |-> 12, riff |-> riff, wave |-> wave, chunks |-> chunkList]

\* fewer than 12 bytes
ShortBuffer(n) == [head |-> n, riff |-> "", wave |-> "", chunks |-> <<>>]

\* a chunk in the file: its 8-byte header, its payload, the pad byte of an odd
\* size
ChunkBytes(c) == 8 + c.present + (IF c.present = c.size THEN c.size % 2 ELSE 0)

RECURSIVE ChunksBytes(_)
ChunksBytes(chunkList) ==
  IF chunkList = <<>> THEN 0
  ELSE ChunkBytes(Head(chunkList)) + ChunksBytes(Tail(chunkList))

byteLength(buf) == buf.head + ChunksBytes(buf.chunks)

\* Math.round: the nearest integer, halves upwards
RoundDiv(num, den) == (2 * num + den) \div (2 * den)

\* Math.round(sample * scale) for sample = k / SampleDen, in exact arithmetic
\* kept below 2^31: k * scale / SampleDen = whole + fraction / SampleDen
RoundScaled(k, scale) ==
  LET m == k \div 4
      j == k % 4
      whole == (m * scale) \div Int16Scale
      fraction == 4 * ((m * scale) % Int16Scale) + j * scale
  IN  whole + RoundDiv(fraction, SampleDen)

\* DataView.setInt16: the low 16 bits, read as signed
ToInt16(v) == ((v + Int16Scale) % (2 * Int16Scale)) - Int16Scale

\* positive samples scaled by 0x8000 as well
encodeSampleSymmetric(k) ==
  ToInt16(Min(PositiveScale, RoundScaled(Max(-SampleDen, Min(SampleDen, k)), Int16Scale)))

\* "sample = Math.max(-1, Math.min(1, samples[i]));
\*  value = sample < 0 ? sample * 0x8000 : sample * 0x7fff; Math.round(value)"
encodeSample(k) ==
  LET sample == Max(-SampleDen, Min(SampleDen, k))
  IN  ToInt16(IF sample < 0 THEN RoundScaled(sample, Int16Scale)
              ELSE RoundScaled(sample, PositiveScale))

\* encodeWav: the 44-byte header of a 16-bit mono PCM file, then the samples
encodeWav(samples, sampleRate) ==
  Buffer("RIFF", "WAVE",
         <<FmtChunk(1, sampleRate, 16),
           DataChunk([i \in 1..Len(samples) |-> encodeSample(samples[i])])>>)

\* pcm16ToFloat32: "out[i] = sample / 0x8000"
pcm16ToFloat32(pcmData) ==
  [i \in 1..Len(pcmData) |-> pcmData[i] * (SampleDen \div Int16Scale)]

NoWav == [sampleRate |-> 0, numChannels |-> 0, bitsPerSample |-> 0,
          found |-> FALSE, pcmData |-> <<>>]

\* the chunk loop of parseWavPcm16: a chunk whose declared end lies beyond the
\* buffer ends the loop
RECURSIVE ParseChunks(_, _)
ParseChunks(chunkList, info) ==
  IF chunkList = <<>> THEN info
  ELSE LET c == Head(chunkList)
       IN  IF c.present < c.size THEN info
           ELSE IF c.id = "fmt "
           THEN ParseChunks(Tail(chunkList),
                  [info EXCEPT !.numChannels = c.numChannels,
                               !.sampleRate = c.sampleRate,
                               !.bitsPerSample = c.bitsPerSample])
           ELSE IF c.id = "data"
           THEN ParseChunks(Tail(chunkList),
                  [info EXCEPT !.found = TRUE, !.pcmData = c.samples])
           ELSE ParseChunks(Tail(chunkList), info)

Parsed(info) == [ok |-> TRUE, error |-> "", info |-> info]

ParseError(message) == [ok |-> FALSE, error |-> message, info |-> NoWav]

\* any sample format accepted
parseWavPcm16AnyFormat(audioBuffer) ==
  IF audioBuffer.head < 12 THEN ParseError("RangeError")
  ELSE IF audioBuffer.riff # "RIFF" \/ audioBuffer.wave # "WAVE"
  THEN ParseError("only WAV input is supported")
  ELSE LET info == ParseChunks(audioBuffer.chunks, NoWav)
       IN  IF \/ ~info.found \/ info.sampleRate = 0
              \/ info.numChannels = 0 \/ info.bitsPerSample < 8
           THEN ParseError("cannot parse the WAV file")
           ELSE Parsed(info)

parseWavPcm16(audioBuffer) ==
  IF audioBuffer.head < 12 THEN ParseError("RangeError")
  ELSE IF audioBuffer.riff # "RIFF" \/ audioBuffer.wave # "WAVE"
  THEN ParseError("only WAV input is supported")
  ELSE LET info == ParseChunks(audioBuffer.chunks, NoWav)
       IN  IF \/ ~info.found \/ info.sampleRate = 0
              \/ info.numChannels = 0 \/ info.bitsPerSample = 0
           THEN ParseError("cannot parse the WAV file")
           ELSE IF info.bitsPerSample # 16 \/ info.numChannels # 1
           THEN ParseError("only 16-bit mono WAV can be split")
           ELSE Parsed(info)

\* the while loop of splitAudioBuffer, offsets counted in samples
RECURSIVE SliceLoop(_, _, _, _)
SliceLoop(pcmData, offset, maxSamples, sampleRate) ==
  IF offset >= Len(pcmData) THEN <<>>
  ELSE LET end == Min(offset + maxSamples, Len(pcmData))
           pcmSlice == SubSeq(pcmData, offset + 1, end)
       IN  <<encodeWav(pcm16ToFloat32(pcmSlice), sampleRate)>>
           \o SliceLoop(pcmData, end, maxSamples, sampleRate)

Split(chunkList) == [status |-> "ok", error |-> "", chunks |-> chunkList]

SplitError(message) == [status |-> "error", error |-> message, chunks |-> <<>>]

splitAudioBuffer(audioBuffer, maxBytes) ==
  IF maxBytes <= WavHeaderBytes THEN SplitError("maxBytes must exceed 44")
  ELSE IF byteLength(audioBuffer) <= maxBytes THEN Split(<<audioBuffer>>)
  ELSE LET wav == parseWavPcm16(audioBuffer)
       IN  IF ~wav.ok THEN SplitError(wav.error)
           ELSE LET bytesPerSample == wav.info.bitsPerSample \div 8
                    frameBytes == bytesPerSample * wav.info.numChannels
                    maxDataBytes ==
                      Max(frameBytes,
                          ((maxBytes - WavHeaderBytes) \div frameBytes) * frameBytes)
                IN  Split(SliceLoop(wav.info.pcmData, 0,
                                    Max(1, maxDataBytes \div 2),
                                    wav.info.sampleRate))

(***************************************************************************)
(* The audio functions applied to bounded inputs: one call of              *)
(* splitAudioBuffer on a buffer and a size limit, or encodeWav on samples  *)
(* followed by parseWavPcm16 and pcm16ToFloat32 on its output.             *)
(***************************************************************************)
SampleValues == {-32768, -1, 0, 1, 16384, 16385, 32767}

PcmSeqs == UNION {[1..n -> SampleValues] : n \in 0..MaxSamples}

SampleRates == {8000, 16000, 44100}

\* Float32 samples as numerators over SampleDen: -1, -0.5, 0.5, 1, the
\* smallest steps around 0, 122881/131072, and two values beyond [-1, 1]
FloatValues == {-SampleDen - 1, -SampleDen, -(SampleDen \div 2), -1, 0, 1,
                SampleDen \div 2, SampleDen - 8191, SampleDen, SampleDen + 1}

FloatSeqs == UNION {[1..n -> FloatValues] : n \in 0..MaxSamples}

Budgets == {0, 40, 44, 45, 46, 47, 48, 100}

WavOf(pcmData, numChannels, sampleRate, bitsPerSample) ==
  Buffer("RIFF", "WAVE",
         <<FmtChunk(numChannels, sampleRate, bitsPerSample), DataChunk(pcmData)>>)

ProbePcm == <<1, -1, 0, 16384>>

\* buffers that are not 16-bit mono PCM WAV files, and one that is, with a
\* LIST chunk between "fmt " and "data"
OtherBuffers ==
  {ShortBuffer(0), ShortBuffer(10),
   Buffer("RIFX", "WAVE", <<FmtChunk(1, 16000, 16), DataChunk(ProbePcm)>>),
   Buffer("RIFF", "AVI ", <<FmtChunk(1, 16000, 16), DataChunk(ProbePcm)>>),
   Buffer("RIFF", "WAVE", <<DataChunk(ProbePcm)>>),
   Buffer("RIFF", "WAVE", <<FmtChunk(1, 16000, 16), Chunk("LIST", 26, 26)>>),
   Buffer("RIFF", "WAVE",
          <<FmtChunk(1, 16000, 16), [DataChunk(ProbePcm) EXCEPT !.size = 100]>>),
   Buffer("RIFF", "WAVE",
          <<FmtChunk(1, 16000, 16), Chunk("LIST", 4, 4), DataChunk(ProbePcm)>>),
   WavOf(ProbePcm, 1, 16000, 8), WavOf(ProbePcm, 1, 16000, 24),
   WavOf(ProbePcm, 2, 16000, 16), WavOf(ProbePcm, 1, 0, 16),
   WavOf(ProbePcm, 0, 16000, 16), WavOf(ProbePcm, 1, 16000, 0)}

Buffers == {WavOf(pcmData, 1, 16000, 16) : pcmData \in PcmSeqs} \cup OtherBuffers

NoSplit == [status |-> "none", error |-> "", chunks |-> <<>>]

NoParse == [ok |-> FALSE, error |-> "none", info |-> NoWav]

AudioCall(op) ==
  [op |-> op, pc |-> "start", buf |-> ShortBuffer(0), maxBytes |-> 0,
   samples |-> <<>>, sampleRate |-> 0,
   split |-> NoSplit, wav |-> NoParse, decoded |-> <<>>]

\* nothing else of the plugin is running
ServicesIdle ==
  /\ settings = [summaryEnableHierarchical |-> TRUE,
                 summaryChunkCharLimit |-> [kind |-> "number", num |-> 12000, den |-> 1],
                 llmConfigValid |-> TRUE,
                 autoSummarize |-> FALSE]
  /\ sumTranscription = NoTranscript
  /\ sumPc = "idle"
  /\ hierarchical = FALSE
  /\ chunks = <<>>
  /\ chunkI = 0
  /\ partialSummaries = <<>>
  /\ providerCalls = <<>>
  /\ sumReturned = NoResult
  /\ sumValidation = "none"
  /\ sumError = ""
  /\ PluginIdle
  /\ transcribeRun = [pc |-> "idle"]
  /\ recorder = RecorderBoot

outsideAudio == <<sumVars, pluginVars, onProgress, transcribeRun, xfyun, recorder>>

AudioInit ==
  /\ ServicesIdle
  /\ onProgress = "absent"
  /\ xfyun = [pc |-> "idle"]
  /\ \/ \E audioBuffer \in Buffers, maxBytes \in Budgets :
          audio = [AudioCall("split") EXCEPT !.buf = audioBuffer,
                                             !.maxBytes = maxBytes]
     \/ \E samples \in FloatSeqs, sampleRate \in SampleRates :
          audio = [AudioCall("encode") EXCEPT !.samples = samples,
                                              !.sampleRate = sampleRate]

SplitAudioBuffer ==
  /\ audio.op = "split" /\ audio.pc = "start"
  /\ audio' = [audio EXCEPT !.pc = "done",
                            !.split = splitAudioBuffer(audio.buf, audio.maxBytes)]
  /\ UNCHANGED outsideAudio

EncodeWav ==
  /\ audio.op = "encode" /\ audio.pc = "start"
  /\ audio' = [audio EXCEPT !.pc = "encoded",
                            !.buf = encodeWav(audio.samples, audio.sampleRate)]
  /\ UNCHANGED outsideAudio

DecodeWav ==
  /\ audio.op = "encode" /\ audio.pc = "encoded"
  /\ LET wav == parseWavPcm16(audio.buf)
     IN  audio' = [audio EXCEPT !.pc = "done", !.wav = wav,
                                !.decoded = pcm16ToFloat32(wav.info.pcmData)]
  /\ UNCHANGED outsideAudio

AudioNext == SplitAudioBuffer \/ EncodeWav \/ DecodeWav

SpecAudio == AudioInit /\ [][AudioNext]_vars

(***************************************************************************)
(* Properties of the audio functions                                       *)
(***************************************************************************)
SplitDone == audio.op = "split" /\ audio.pc = "done"

RoundTripDone == audio.op = "encode" /\ audio.pc = "done"

ChunksOf(buf, id) == {c \in {buf.chunks[i] : i \in DOMAIN buf.chunks} : c.id = id}

\* a complete RIFF/WAVE file with one "fmt " chunk of 16-bit mono PCM and one
\* "data" chunk
IsPcm16MonoWav(buf) ==
  /\ buf.head = 12 /\ buf.riff = "RIFF" /\ buf.wave = "WAVE"
  /\ \A i \in DOMAIN buf.chunks : buf.chunks[i].present = buf.chunks[i].size
  /\ Cardinality(ChunksOf(buf, "fmt ")) = 1
  /\ Cardinality(ChunksOf(buf, "data")) = 1
  /\ \A c \in ChunksOf(buf, "fmt ") :
       c.numChannels = 1 /\ c.bitsPerSample = 16 /\ c.sampleRate > 0

PcmPayload(buf) == (CHOOSE c \in ChunksOf(buf, "data") : TRUE).samples

RECURSIVE ConcatPayloads(_)
ConcatPayloads(bufs) ==
  IF bufs = <<>> THEN <<>>
  ELSE PcmPayload(Head(bufs)) \o ConcatPayloads(Tail(bufs))

Abs(n) == IF n < 0 THEN -n ELSE n

\* C15: a buffer that is no longer than maxBytes, whatever maxBytes is, comes
\* back from splitAudioBuffer as the one-element list holding that buffer,
\* without an error and without being parsed.
C15_SplitIdempotence ==
  (SplitDone /\ byteLength(audio.buf) <= audio.maxBytes)
    => audio.split = Split(<<audio.buf>>)

\* C16: every chunk splitAudioBuffer returns for a valid 16-bit mono WAV
\* buffer and a maxBytes above 44 (45 included) is at most maxBytes long.
C16_ChunkSizeBound ==
  (SplitDone /\ IsPcm16MonoWav(audio.buf) /\ audio.maxBytes > WavHeaderBytes)
    => \A i \in DOMAIN audio.split.chunks :
         byteLength(audio.split.chunks[i]) <= audio.maxBytes

\* C17: the data sections of the chunks of a valid 16-bit mono WAV buffer
\* longer than maxBytes > 44, concatenated in order, are the original PCM
\* payload, for every 16-bit sample value.
C17_LosslessReassembly ==
  (/\ SplitDone /\ IsPcm16MonoWav(audio.buf)
   /\ audio.maxBytes > WavHeaderBytes
   /\ byteLength(audio.buf) > audio.maxBytes)
    => /\ audio.split.status = "ok"
       /\ ConcatPayloads(audio.split.chunks) = PcmPayload(audio.buf)

\* C18: encodeWav of samples in [-1, 1] is 44 + 2 * len bytes long, and
\* parsing it and converting with pcm16ToFloat32 gives back the sample rate,
\* the number of samples, and each sample within 1/32768 of the original.
C18_EncodeDecodeRoundTrip ==
  (/\ RoundTripDone
   /\ \A i \in DOMAIN audio.samples : Abs(audio.samples[i]) <= SampleDen)
    => /\ byteLength(audio.buf) = WavHeaderBytes + 2 * Len(audio.samples)
       /\ audio.wav.ok
       /\ audio.wav.info.sampleRate = audio.sampleRate
       /\ Len(audio.decoded) = Len(audio.samples)
       /\ \A i \in DOMAIN audio.samples :
            Abs(audio.decoded[i] - audio.samples[i]) * Int16Scale <= SampleDen

\* the cases in which a buffer cannot be split
Unsplittable(buf, maxBytes) ==
  \/ maxBytes <= WavHeaderBytes
  \/ buf.riff # "RIFF" \/ buf.wave # "WAVE"
  \/ ChunksOf(buf, "fmt ") = {} \/ ChunksOf(buf, "data") = {}
  \/ \E c \in ChunksOf(buf, "fmt ") : c.bitsPerSample # 16 \/ c.numChannels # 1

\* C19: when a buffer longer than maxBytes has to be split and maxBytes <= 44,
\* or a RIFF or WAVE tag is wrong, or the "fmt " or "data" chunk is missing, or
\* the samples are not 16-bit, or there is not exactly one channel, then
\* splitAudioBuffer fails and returns no chunk; a failed call never returns
\* chunks.
C19_SplitErrors ==
  SplitDone =>
    /\ (byteLength(audio.buf) > audio.maxBytes
        /\ Unsplittable(audio.buf, audio.maxBytes))
         => audio.split.status = "error"
    /\ audio.split.status = "error" => audio.split.chunks = <<>>

C19_Witness ==
  /\ SplitDone
  /\ byteLength(audio.buf) > audio.maxBytes
  /\ audio.maxBytes > WavHeaderBytes
  /\ \E c \in ChunksOf(audio.buf, "fmt ") : c.numChannels = 2
  /\ audio.split = SplitError("only 16-bit mono WAV can be split")

(***************************************************************************)
(* XfyunProvider.pollProgress: the loop that asks the service for the      *)
(* state of a merged task.  Each await is a point where the call waits:    *)
(* for the response to a getProgress request, or for the sleep timer.      *)
(***************************************************************************)
maxAttempts == 120
PollDelayMs == 3000

\* what a getProgress request can bring: a failure (HTTP status >= 400, or a
\* non-zero code or failed field), or a payload whose data holds a status or
\* not
Responses ==
  [ok : {TRUE}, hasStatus : {TRUE}, status : {0, 3, 5, 9}]
    \cup {[ok |-> TRUE, hasStatus |-> FALSE, status |-> 0],
          [ok |-> FALSE, hasStatus |-> FALSE, status |-> 0]}

\* readNumberField(data, ['status', 'task_status'])
readNumberField(response) == IF response.hasStatus THEN response.status ELSE -1

\* status 5 taken for a task still running
readyOnlyNine(status) == status = 9

\* "if (status === 9 || status === 5) return"
ready(status) == status = 9 \/ status = 5

outsideXfyun == <<sumVars, pluginVars, onProgress, transcribeRun, audio, recorder>>

XfyunInit ==
  /\ ServicesIdle
  /\ onProgress \in ProgressSinks
  /\ audio = [op |-> "none"]
  /\ xfyun = [pc |-> "start", i |-> 0, requests |-> 0, notReady |-> 0,
              failures |-> 0, slept |-> 0, status |-> -1, error |-> ""]

\* "await this.request('getProgress', ...)" at the top of the loop body
Requested(st) == [st EXCEPT !.pc = "awaitRequest", !.requests = @ + 1]

\* the loop condition "i < maxAttempts", and the throw after the loop
LoopHead(st) ==
  IF st.i < maxAttempts THEN Requested(st)
  ELSE [st EXCEPT !.pc = "failed", !.error = "timeout"]

\* pollProgress is called: the first request goes out
PollProgress ==
  /\ xfyun.pc = "start"
  /\ xfyun' = LoopHead(xfyun)
  /\ UNCHANGED outsideXfyun

\* the request settles: request() throws, or the status is read; a status
\* that is not ready is reported to onProgress and the sleep begins
RequestSettles ==
  /\ xfyun.pc = "awaitRequest"
  /\ \E response \in Responses, throws \in BOOLEAN :
       LET status == readNumberField(response)
       IN  xfyun' =
             IF ~response.ok
             THEN [xfyun EXCEPT !.pc = "failed", !.error = "request failed",
                                !.failures = @ + 1]
             ELSE IF ready(status)
             THEN [xfyun EXCEPT !.pc = "returned", !.status = status]
             ELSE IF Thrown(throws)
             THEN [xfyun EXCEPT !.pc = "failed", !.status = status,
                                !.notReady = @ + 1,
                                !.error = "progress callback error"]
             ELSE [xfyun EXCEPT !.pc = "sleeping", !.status = status,
                                !.notReady = @ + 1]
  /\ UNCHANGED outsideXfyun

\* "await sleep(3000)" is over: i++, and the loop goes round
SleepElapses ==
  /\ xfyun.pc = "sleeping"
  /\ xfyun' = LoopHead([xfyun EXCEPT !.i = @ + 1, !.slept = @ + PollDelayMs])
  /\ UNCHANGED outsideXfyun

XfyunNext == PollProgress \/ RequestSettles \/ SleepElapses

SpecXfyun == XfyunInit /\ [][XfyunNext]_vars

\* every request is answered or fails, and every timer fires
SpecXfyunFair == SpecXfyun /\ WF_vars(XfyunNext)

PollOver == xfyun.pc \in {"returned", "failed"}

PollSafety ==
  /\ xfyun.requests <= maxAttempts
  /\ xfyun.slept = PollDelayMs * xfyun.i
  /\ xfyun.requests = xfyun.i + (IF xfyun.pc = "start" \/ xfyun.error = "timeout"
                                 THEN 0 ELSE 1)
  /\ xfyun.status \in {5, 9} <=> xfyun.pc = "returned"
  /\ xfyun.pc = "returned" => xfyun.notReady = xfyun.requests - 1
  /\ xfyun.error = "timeout" <=>
       (xfyun.pc \notin {"awaitRequest", "sleeping"} /\ xfyun.notReady = maxAttempts
        /\ xfyun.error # "progress callback error")
  /\ xfyun.failures = (IF xfyun.error = "request failed" THEN 1 ELSE 0)
  /\ xfyun.error = "request failed" =>
       xfyun.pc = "failed" /\ xfyun.notReady = xfyun.requests - 1

\* C20: pollProgress sends at most 120 getProgress requests, sleeps 3000 ms
\* after each not-ready answer, returns on the first answer with status 9 or 5,
\* fails with the timeout error exactly when 120 answers were not ready, fails
\* at once when a request fails, and always comes to an end.
C20_PollBounded == []PollSafety /\ <>PollOver

C20_Witness ==
  /\ xfyun.pc = "failed" /\ xfyun.error = "timeout"
  /\ xfyun.requests = maxAttempts
  /\ xfyun.slept = PollDelayMs * maxAttempts

(***************************************************************************)
(* Further properties of a summarisation run                               *)
(***************************************************************************)
\* C21: every chunk that plain-text chunking returns for a transcript without
\* segments is at most the budget long, also when the text has several
\* paragraphs of which one alone is longer than the budget.
C21_PlainTextBudget ==
  (hierarchical /\ normalizeSegments(sumTranscription.segments) = <<>>) =>
    \A k \in 1..Len(chunks) : StrLen(chunks[k].fullText) <= ChunkLimit

\* C22: the effective chunk character limit lies in 4000..30000, and is 12000
\* when the setting is not a finite number, whatever the loaded settings hold.
C22_ChunkLimitRange ==
  sumPc # "start" =>
    /\ ChunkLimit >= 4000 /\ ChunkLimit <= 30000
    /\ settings.summaryChunkCharLimit.kind # "number" => ChunkLimit = 12000

\* the greedy rule seen from its result: no chunk is empty, a chunk of two or
\* more segments costs at most the budget, a chunk ends only where the next
\* segment would not have fitted, and the duration runs from the first
\* segment's start to the last segment's end
Greedy(cs, budget) ==
  /\ \A k \in 1..Len(cs) :
       LET bucket == cs[k].segments
       IN  /\ bucket # <<>>
           /\ SumCost(bucket) <= budget \/ Len(bucket) = 1
           /\ cs[k].duration = Max(0, bucket[Len(bucket)].end - bucket[1].start)
  /\ \A k \in 1..(Len(cs) - 1) :
       SumCost(cs[k].segments) + SumCost(<<cs[k + 1].segments[1]>>) > budget

\* C23: in segment mode, each segment costing len(text) + 16, a bucket is
\* flushed before a segment exactly when it is non-empty and the segment would
\* push the counter above the budget: every chunk costs at most the budget or
\* is one segment kept whole, no chunk is empty, and a chunk's duration is
\* max(0, lastSeg.end - firstSeg.start); for the chunks of the run and for
\* every budget.
C23_SegmentGreedy ==
  normalizeSegments(sumTranscription.segments) # <<>> =>
    /\ hierarchical => Greedy(chunks, ChunkLimit)
    /\ sumPc = "start" =>
         \A budget \in CoverageBudgets :
           Greedy(splitTranscription(sumTranscription, budget), budget)

C23_Witness ==
  /\ hierarchical
  /\ \E k \in 1..Len(chunks) :
       Len(chunks[k].segments) = 1 /\ SumCost(chunks[k].segments) > ChunkLimit
  /\ \E k \in 1..Len(chunks) :
       Len(chunks[k].segments) = 2 /\ SumCost(chunks[k].segments) <= ChunkLimit

\* C24: when summarizeHierarchically is entered and the split gives at most
\* one chunk, the run makes exactly one provider call, on the original
\* transcript with the caller's options (the original template), and no merge
\* call; its result is what summarize returns.
C24_SingleChunkDelegation ==
  (hierarchical /\ Len(chunks) <= 1) =>
    /\ Len(providerCalls) = 1
    /\ providerCalls[1].phase = "single"
    /\ providerCalls[1].input = sumTranscription
    /\ providerCalls[1].template = "original"
    /\ MergeCalls = {}
    /\ sumPc = "done" => sumReturned = providerCalls[1].result

C24_Witness ==
  /\ hierarchical
  /\ Len(chunks) = 1
  /\ chunks[1] # sumTranscription
  /\ sumPc = "done"
  /\ Len(providerCalls) = 1

(***************************************************************************)
(* Further properties of a batch run                                       *)
(***************************************************************************)
\* C25: when batchProcessRecordings has returned, whatever items failed and
\* whatever the progress callback did, succeeded and failed are disjoint,
\* every path of the queue (the distinct non-empty input paths) is in exactly
\* one of them, and succeeded.length + failed.length is the queue's length.
C25_BatchAccounting ==
  batch.pc = "done" =>
    /\ SucceededPaths \cap FailedPaths = {}
    /\ SucceededPaths \cup FailedPaths = {batch.queue[k] : k \in 1..Len(batch.queue)}
    /\ Len(batch.succeeded) + Len(batch.failed) = Len(batch.queue)

(***************************************************************************)
(* The two task kinds triggering each other, with autoSummarize on: a      *)
(* summary that has no transcript calls transcribeAudioFile, and a         *)
(* finished transcription calls summarizeAudioFile without awaiting it.    *)
(***************************************************************************)
MaxReentrantCalls == 2

ReentrantInit == PluginBoot /\ settings.autoSummarize /\ onProgress = "absent"

ReentrantCall == CallWithin(MaxReentrantCalls)

ReentrantNext ==
  \/ ReentrantCall
  \/ TranscriptLoaded
  \/ TranscriptionDone
  \/ SummaryCacheLoaded
  \/ SummaryDone
  \/ RunMicrotask

\* every pending read, provider call and promise reaction completes
Completes ==
  \/ TranscriptLoaded
  \/ TranscriptionDone
  \/ SummaryCacheLoaded
  \/ SummaryDone
  \/ RunMicrotask

SpecReentrant == ReentrantInit /\ [][ReentrantNext]_vars /\ WF_vars(Completes)

\* nothing is running and nothing is queued
Quiet ==
  /\ microtasks = <<>>
  /\ \A t \in DOMAIN tasks : tasks[t].pc = "settled"
  /\ \A f \in Files : transcribingTasks[f] = NoTask /\ summarizingTasks[f] = NoTask

\* the awaits of the transcription that summary task p asked for
NestedAwaits(p) == {a \in Awaits : a.await.by = "nested" /\ a.await.parent = p}

ReentrantSafe ==
  /\ \A f \in Files, kind \in Kinds : Cardinality(Running(kind, f)) <= 1
  /\ \A p \in DOMAIN tasks :
       (tasks[p].kind = "summarize" /\ tasks[p].pc = "awaitTranscribe") =>
         /\ Cardinality(NestedAwaits(p)) = 1
         /\ \A a \in NestedAwaits(p) :
              /\ tasks[a.task].kind = "transcribe"
              /\ tasks[a.task].key = tasks[p].key
              /\ tasks[a.task].pc # "awaitTranscribe"
  /\ \A a \in Awaits :
       a.await.by = "auto" =>
         tasks[a.task].kind = "summarize" /\ tasks[a.task].key = a.await.key

\* a transcription of f ends with a result while a summary task of f is
\* pending: the summarizeAudioFile call it makes joins that task, and no task
\* is started
JoinsInFlight ==
  \A f \in Files : \A t \in Running("transcribe", f) :
    (/\ t \in DOMAIN tasks'
     /\ tasks'[t].pc = "settled"
     /\ tasks'[t].outcome # "null"
     /\ Running("summarize", f) # {}) =>
      /\ Running("summarize", f)' = Running("summarize", f)
      /\ Running("transcribe", f)' = {}
      /\ \A p \in Running("summarize", f) :
           /\ Len(tasks'[p].waiters) = Len(tasks[p].waiters) + 1
           /\ tasks'[p].waiters[Len(tasks'[p].waiters)].by = "auto"
           /\ ~tasks'[p].waiters[Len(tasks'[p].waiters)].started

\* C26: with autoSummarize on, the summarizeAudioFile call made by a finished
\* transcription while a summary task of the same file is pending joins that
\* task; at most one summary task and one transcription task of a file run at
\* a time, a summary waiting for a transcription waits for exactly one, which
\* does not wait for anything; and the triggers always come to an end.
C26_Reentrancy == []ReentrantSafe /\ [][JoinsInFlight]_vars /\ []<>Quiet

C26_Witness ==
  /\ userCalls = 1
  /\ \E p \in DOMAIN tasks :
       /\ tasks[p].kind = "summarize"
       /\ tasks[p].pc = "awaitTranscribe"
       /\ Len(tasks[p].waiters) = 2
       /\ tasks[p].waiters[1].by = "user" /\ tasks[p].waiters[1].started
       /\ tasks[p].waiters[2].by = "auto" /\ ~tasks[p].waiters[2].started
       /\ \A a \in NestedAwaits(p) :
            tasks[a.task].pc = "settled" /\ tasks[a.task].outcome = "text"

(***************************************************************************)
(* The transcript cache in a transcribeFile call                           *)
(***************************************************************************)
\* cache.load has returned and cache.save was not called: the sidecar is the
\* one the call found
CacheAsLoaded == At("cache.load") # {} /\ At("cache.save") = {}

ServedFromCache ==
  /\ transcribeRun.pc = "done"
  /\ transcribeRun.fromCache
  /\ transcribeRun.result = transcribeRun.sidecar.content
  /\ At("validateConfig") \cup At("readBinary") \cup At("provider.transcribe") = {}

\* the sidecar is written by a completed cache.save only, with the result of
\* the provider call that preceded it
SidecarWrittenOnSave ==
  transcribeRun'.sidecar # transcribeRun.sidecar =>
    /\ transcribeRun.pc = "save"
    /\ At("provider.transcribe") # {}
    /\ transcribeRun'.pc = "done"
    /\ transcribeRun'.sidecar = [exists |-> TRUE, content |-> transcribeRun.result]

CacheWriteDiscipline ==
  /\ At("cache.save") # {} =>
       \E k \in At("provider.transcribe") : \A j \in At("cache.save") : k < j
  /\ (transcribeRun.pc = "done" /\ ~transcribeRun.fromCache) =>
       /\ At("provider.transcribe") # {}
       /\ transcribeRun.sidecar = [exists |-> TRUE, content |-> transcribeRun.result]

\* C27 as stated: a cached result with a non-empty fullText or a segment is
\* returned with fromCache = true and the provider is not invoked; an empty
\* one is transcribed again; the cache is written only after the provider's
\* transcribe succeeded.
C27_Original ==
  /\ [](CacheAsLoaded /\ transcribeRun.sidecar.exists =>
          IF \/ transcribeRun.sidecar.content.fullText # <<>>
             \/ Len(transcribeRun.sidecar.content.segments) > 0
          THEN ServedFromCache
          ELSE ~transcribeRun.fromCache /\ At("validateConfig") # {})
  /\ []CacheWriteDiscipline
  /\ [][SidecarWrittenOnSave]_vars

\* C27 amended: the cached result is returned, with fromCache = true and
\* without validation, read or provider call, when its fullText has a
\* non-blank character or it has a segment; any other cached result (none,
\* empty, or white space only) is transcribed again; the cache is written only
\* by the save that follows a successful provider call, so a failed
\* validation, read or transcription leaves it as it was.
C27_Amended ==
  /\ [](CacheAsLoaded =>
          IF /\ transcribeRun.sidecar.exists
             /\ \/ Trim(transcribeRun.sidecar.content.fullText) # <<>>
                \/ Len(transcribeRun.sidecar.content.segments) > 0
          THEN ServedFromCache
          ELSE ~transcribeRun.fromCache /\ At("validateConfig") # {})
  /\ []CacheWriteDiscipline
  /\ [][SidecarWrittenOnSave]_vars

C27_Witness ==
  /\ transcribeRun.pc = "done"
  /\ transcribeRun.fromCache
  /\ transcribeRun.result = SegmentsOnly
  /\ transcribeRun.log = <<"cache.load">>

(***************************************************************************)
(* XfyunProvider.transcribe: validateConfig, convertToWav16k, then the     *)
(* requests prepare, upload, merge, the getProgress loop above, getResult. *)
(* issued lists the backend actions in the order of their first request,   *)
(* acked counts those that have succeeded.                                 *)
(***************************************************************************)
FlowOrder == <<"prepare", "upload", "merge", "getProgress", "getResult">>

XfyunFlowInit ==
  /\ ServicesIdle
  /\ onProgress \in ProgressSinks
  /\ audio = [op |-> "none"]
  /\ \E valid \in BOOLEAN :
       xfyun = [pc |-> "call", i |-> 0, requests |-> 0, notReady |-> 0,
                failures |-> 0, slept |-> 0, status |-> -1, error |-> "",
                configValid |-> valid, issued |-> <<>>, acked |-> 0,
                returned |-> FALSE]

flowFailed(st, message) == [st EXCEPT !.pc = "failed", !.error = message]

\* the next request goes out whatever became of the previous one
proceedRegardless(st, ok, thrown, action) ==
  [st EXCEPT !.pc = action, !.issued = Append(@, action)]

\* the continuation after "await this.request(...)": the request threw, or
\* onProgress is called and the next request goes out
proceed(st, ok, thrown, action) ==
  IF ~ok THEN flowFailed(st, "request failed")
  ELSE IF thrown THEN flowFailed([st EXCEPT !.acked = @ + 1], "progress callback error")
  ELSE [st EXCEPT !.pc = action, !.acked = @ + 1, !.issued = Append(@, action)]

\* transcribe is called: validateConfig, the convert event, convertToWav16k
XfyunTranscribe ==
  /\ xfyun.pc = "call"
  /\ \E throws \in BOOLEAN :
       LET validation == validateConfig(xfyun.configValid)
       IN  xfyun' = IF rejects(validation) THEN flowFailed(xfyun, validation.message)
                    ELSE IF Thrown(throws)
                    THEN flowFailed(xfyun, "progress callback error")
                    ELSE [xfyun EXCEPT !.pc = "convert"]
  /\ UNCHANGED outsideXfyun

\* convertToWav16k settles: prepare is requested, or the conversion failed
Converted ==
  /\ xfyun.pc = "convert"
  /\ \E ok \in BOOLEAN :
       xfyun' = IF ok THEN [xfyun EXCEPT !.pc = "prepare",
                                          !.issued = Append(@, "prepare")]
                ELSE flowFailed(xfyun, "conversion failed")
  /\ UNCHANGED outsideXfyun

\* prepare settles: failed, or without a task id, or upload is requested
Prepared ==
  /\ xfyun.pc = "prepare"
  /\ \E ok \in BOOLEAN, taskId \in BOOLEAN, throws \in BOOLEAN :
       xfyun' = IF ok /\ ~taskId THEN flowFailed(xfyun, "no task_id")
                ELSE proceed(xfyun, ok, Thrown(throws), "upload")
  /\ UNCHANGED outsideXfyun

\* upload settles: failed, or merge is requested
Uploaded ==
  /\ xfyun.pc = "upload"
  /\ \E ok \in BOOLEAN, throws \in BOOLEAN :
       xfyun' = proceed(xfyun, ok, Thrown(throws), "merge")
  /\ UNCHANGED outsideXfyun

\* merge settles: failed, or pollProgress is called and sends its first
\* getProgress
Merged ==
  /\ xfyun.pc = "merge"
  /\ \E ok \in BOOLEAN, throws \in BOOLEAN :
       LET st == proceed(xfyun, ok, Thrown(throws), "getProgress")
       IN  xfyun' = IF st.pc = "failed" THEN st ELSE LoopHead(st)
  /\ UNCHANGED outsideXfyun

\* pollProgress has returned: the download event, then getResult is requested
PollReturned ==
  /\ xfyun.pc = "returned"
  /\ \E throws \in BOOLEAN :
       xfyun' = proceed(xfyun, TRUE, Thrown(throws), "getResult")
  /\ UNCHANGED outsideXfyun

\* getResult settles: failed, or the result is parsed, the done event is
\* reported and the TranscriptionResult returned
ResultFetched ==
  /\ xfyun.pc = "getResult"
  /\ \E ok \in BOOLEAN, throws \in BOOLEAN :
       xfyun' = IF ~ok THEN flowFailed(xfyun, "request failed")
                ELSE IF Thrown(throws)
                THEN flowFailed([xfyun EXCEPT !.acked = @ + 1],
                                "progress callback error")
                ELSE [xfyun EXCEPT !.pc = "done", !.acked = @ + 1,
                                   !.returned = TRUE]
  /\ UNCHANGED outsideXfyun

XfyunFlowNext ==
  \/ XfyunTranscribe
  \/ Converted
  \/ Prepared
  \/ Uploaded
  \/ Merged
  \/ RequestSettles
  \/ SleepElapses
  \/ PollReturned
  \/ ResultFetched

SpecXfyunFlow == XfyunFlowInit /\ [][XfyunFlowNext]_vars

\* C28: in one transcribe call the backend actions are first requested in the
\* order prepare, upload, merge, getProgress, getResult, each only after the
\* one before it has succeeded; getResult is requested only after a
\* getProgress answer with status 9 or 5; after a failure nothing more is
\* requested and no result is returned; a result is returned only after all
\* five succeeded.
C28_XfyunProtocolOrder ==
  /\ Len(xfyun.issued) <= Len(FlowOrder)
  /\ xfyun.issued = SubSeq(FlowOrder, 1, Len(xfyun.issued))
  /\ xfyun.acked <= Len(xfyun.issued) /\ Len(xfyun.issued) <= xfyun.acked + 1
  /\ xfyun.requests >= 1 <=> Len(xfyun.issued) >= 4
  /\ Len(xfyun.issued) = 5 => (xfyun.status \in {5, 9} /\ xfyun.requests >= 1)
  /\ xfyun.pc = "failed" =>
       /\ ~xfyun.returned
       /\ xfyun.error # ""
       /\ xfyun.error = "request failed" => xfyun.acked = Len(xfyun.issued) - 1
  /\ xfyun.returned <=> xfyun.pc = "done"
  /\ xfyun.returned => (xfyun.issued = FlowOrder /\ xfyun.acked = 5)

C28_Witness ==
  /\ xfyun.pc = "done"
  /\ xfyun.returned
  /\ xfyun.requests = 3
  /\ xfyun.status = 5
  /\ xfyun.issued = FlowOrder

(***************************************************************************)
(* AudioRecorder and the recording session of the plugin                   *)
(*                                                                         *)
(* recorder.native[d] is the state of MediaRecorder d as the browser keeps *)
(* it, recorder.tracks[d] that of the tracks of stream d; mediaRecorder    *)
(* and stream are the fields of AudioRecorder (0 is null), blocks the ids  *)
(* of the status: recording blocks in the note.                            *)
(***************************************************************************)
outsideRecorder == <<sumVars, pluginVars, onProgress, transcribeRun, audio, xfyun>>

RecorderInit ==
  /\ ServicesIdle
  /\ onProgress = "absent"
  /\ audio = [op |-> "none"]
  /\ xfyun = [pc |-> "idle"]

isIdle(r) == r.state = "IDLE"

\* setState(newState), with the operation that called it
setState(r, newState, op) == [r EXCEPT !.state = newState, !.lastOp = op]

cleanup(r) ==
  setState([r EXCEPT !.tracks = IF r.stream # 0
                                  THEN [@ EXCEPT ![r.stream] = "stopped"]
                                  ELSE @,
                     !.stream = 0,
                     !.mediaRecorder = 0],
           "IDLE", "stop")

\* AudioRecorder.pause and resume; MediaRecorder.pause() and resume() throw
\* InvalidStateError on an inactive
\* recorder, before setState is reached
pauseRecording(r) ==
  IF r.state # "RECORDING" \/ r.mediaRecorder = 0 THEN r
  ELSE IF r.native[r.mediaRecorder] = "inactive" THEN r
  ELSE setState([r EXCEPT !.native[r.mediaRecorder] = "paused"], "PAUSED", "pause")

resumeRecording(r) ==
  IF r.state # "PAUSED" \/ r.mediaRecorder = 0 THEN r
  ELSE IF r.native[r.mediaRecorder] = "inactive" THEN r
  ELSE setState([r EXCEPT !.native[r.mediaRecorder] = "recording"],
                "RECORDING", "resume")

pauseResume(r) ==
  IF r.state = "RECORDING" THEN pauseRecording(r)
  ELSE IF r.state = "PAUSED" THEN resumeRecording(r)
  ELSE r

\* findRecordingBlockRange: the blocks it can return, 0 when it returns null.
\* With an id tracked only that block matches; with none the first recording
\* block of the document does, whichever the cursor made first.
findRecordingBlockRange(r) ==
  LET matching == IF r.recordingBlockId # 0
                  THEN r.blocks \cap {r.recordingBlockId}
                  ELSE r.blocks
  IN  IF matching = {} THEN {0} ELSE matching

\* findAndRemoveRecordingBlock / findAndUpdateRecordingBlock: the placeholder
\* found is replaced, by nothing or by the final embed block
replaceRecordingBlock(r, found) == [r EXCEPT !.blocks = @ \ {found}]

clearRecordingBlockTracking(r) == [r EXCEPT !.recordingBlockId = 0]

\* startRecordingWithPlaceholder up to "await navigator.mediaDevices.getUserMedia"
\* inside recorder.start(); id names the block, the stream and the MediaRecorder
startRecordingWithPlaceholder(r, id, editor) ==
  IF ~editor THEN r
  ELSE [r EXCEPT !.blocks = @ \cup {id},
                 !.recordingBlockId = id,
                 !.awaitingMic = @ \cup {id}]

\* doStopRecordingAndFinalize after "await this.recorder.stop()": the stop
\* promise has resolved, its finally and that of the finalize task have run
stopResolved(r, found, saved) ==
  clearRecordingBlockTracking(
    replaceRecordingBlock([r EXCEPT !.resolvedIn = r.state,
                                    !.filePath = IF saved THEN "saved" ELSE "",
                                    !.stopPromise = "null",
                                    !.finalizeRecordingTask = "null",
                                    !.onstop = 0,
                                    !.saving = FALSE],
                          found))

\* stopRecordingAndFinalize up to its first await that does not resolve at once
stopRecordingAndFinalize(r, found) ==
  IF r.finalizeRecordingTask = "pending" THEN r
  ELSE IF r.stopPromise = "pending"
    THEN [r EXCEPT !.finalizeRecordingTask = "pending"]
  ELSE IF r.mediaRecorder = 0 \/ r.state = "IDLE"
    THEN stopResolved(r, found, FALSE)
  ELSE IF r.native[r.mediaRecorder] # "inactive"
    THEN [r EXCEPT !.onstop = r.mediaRecorder,
                   !.native[r.mediaRecorder] = "inactive",
                   !.nativeStops[r.mediaRecorder] = @ + 1,
                   !.stopPromise = "pending",
                   !.finalizeRecordingTask = "pending"]
  ELSE stopResolved(cleanup(r), found, FALSE)

RecorderCall(r) == [r EXCEPT !.calls = @ + 1, !.lastOp = "none"]

\* the toggle-recording command, the ribbon and the recording view's button
ToggleRecordingWithInlineBlock ==
  /\ recorder.calls < MaxRecorderCalls
  /\ LET r == RecorderCall(recorder)
     IN  IF isIdle(r)
         THEN \E editor \in BOOLEAN :
                recorder' = startRecordingWithPlaceholder(r, r.calls, editor)
         ELSE \E found \in findRecordingBlockRange(r) :
                recorder' = stopRecordingAndFinalize(r, found)
  /\ UNCHANGED outsideRecorder

\* the stop button of a rendered recording block
StopButton ==
  /\ recorder.calls < MaxRecorderCalls
  /\ recorder.blocks # {}
  /\ \E found \in findRecordingBlockRange(recorder) :
       recorder' = stopRecordingAndFinalize(RecorderCall(recorder), found)
  /\ UNCHANGED outsideRecorder

\* the pause-resume command and the pause buttons
PauseResumeCommand ==
  /\ recorder.calls < MaxRecorderCalls
  /\ recorder' = pauseResume(RecorderCall(recorder))
  /\ UNCHANGED outsideRecorder

\* AudioRecorder.pause() and AudioRecorder.resume() called on their own
PauseCall ==
  /\ recorder.calls < MaxRecorderCalls
  /\ recorder' = pauseRecording(RecorderCall(recorder))
  /\ UNCHANGED outsideRecorder

ResumeCall ==
  /\ recorder.calls < MaxRecorderCalls
  /\ recorder' = resumeRecording(RecorderCall(recorder))
  /\ UNCHANGED outsideRecorder

\* getUserMedia settles for one start() call: the rest of start(), then the
\* rest of startRecordingWithPlaceholder
GetUserMediaSettles ==
  /\ \E d \in recorder.awaitingMic, granted \in BOOLEAN :
       LET waiting == [recorder EXCEPT !.awaitingMic = @ \ {d}, !.lastOp = "none"]
           started ==
             IF granted
             THEN setState([waiting EXCEPT !.stream = d,
                                           !.tracks[d] = "live",
                                           !.mediaRecorder = d,
                                           !.native[d] = "recording"],
                           "RECORDING", "start")
             ELSE waiting
       IN  IF isIdle(started)
           THEN \E found \in findRecordingBlockRange(started) :
                  recorder' = clearRecordingBlockTracking(
                                replaceRecordingBlock(started, found))
           ELSE recorder' = started
  /\ UNCHANGED outsideRecorder

\* the stop event of the MediaRecorder stop() was called on: recorder.onstop
\* runs up to "await this.saveRecording()"
OnStop ==
  /\ recorder.onstop # 0
  /\ ~recorder.saving
  /\ recorder' = [recorder EXCEPT !.saving = TRUE, !.lastOp = "none"]
  /\ UNCHANGED outsideRecorder

\* saveRecording settles: cleanup, resolve, then doStopRecordingAndFinalize
SaveRecordingSettles ==
  /\ recorder.saving
  /\ \E saved \in BOOLEAN :
       LET cleaned == cleanup(recorder)
       IN  \E found \in findRecordingBlockRange(cleaned) :
             recorder' = stopResolved(cleaned, found, saved)
  /\ UNCHANGED outsideRecorder

RecorderNext ==
  \/ ToggleRecordingWithInlineBlock
  \/ StopButton
  \/ PauseResumeCommand
  \/ PauseCall
  \/ ResumeCall
  \/ GetUserMediaSettles
  \/ OnStop
  \/ SaveRecordingSettles

SpecRecorder == RecorderInit /\ [][RecorderNext]_vars

(***************************************************************************)
(* Properties of the recorder                                              *)
(***************************************************************************)
RecorderStates == {"IDLE", "RECORDING", "PAUSED"}

\* from, to, and the operation whose setState made the change
RecorderTransitions ==
  {<<"IDLE", "RECORDING", "start">>,
   <<"RECORDING", "PAUSED", "pause">>,
   <<"PAUSED", "RECORDING", "resume">>,
   <<"RECORDING", "IDLE", "stop">>,
   <<"PAUSED", "IDLE", "stop">>}

TransitionListed ==
  recorder'.state # recorder.state =>
    <<recorder.state, recorder'.state, recorder'.lastOp>> \in RecorderTransitions

PauseGuarded ==
  (PauseCall /\ recorder.state # "RECORDING") => recorder'.state = recorder.state

ResumeGuarded ==
  (ResumeCall /\ recorder.state # "PAUSED") => recorder'.state = recorder.state

StopOnce ==
  /\ \A d \in Devices : recorder.nativeStops[d] <= 1
  /\ recorder.resolvedIn \in {"none", "IDLE"}
  /\ recorder.finalizeRecordingTask = "pending" =>
       recorder.stopPromise = "pending"

\* C29: the recorder state is always IDLE, RECORDING or PAUSED; it changes
\* only IDLE->RECORDING by a successful start, RECORDING->PAUSED by pause,
\* PAUSED->RECORDING by resume and RECORDING/PAUSED->IDLE when a stop
\* completes; pause outside RECORDING and resume outside PAUSED leave it
\* unchanged; stop() calls under way share one promise, stop each
\* MediaRecorder at most once, and the state is IDLE when the promise resolves.
C29_RecorderStateMachine ==
  /\ [](recorder.state \in RecorderStates)
  /\ [][TransitionListed]_vars
  /\ [][PauseGuarded]_vars
  /\ [][ResumeGuarded]_vars
  /\ []StopOnce

ActiveRecorders == {d \in Devices : recorder.native[d] \in {"recording", "paused"}}

LiveStreams == {d \in Devices : recorder.tracks[d] = "live"}

\* C30: at any time at most one MediaRecorder and one microphone stream is
\* active, at most one placeholder block is tracked, and while the recorder
\* is not IDLE the tracked placeholder is a block of the note.
C30_SingleSession ==
  /\ Cardinality(ActiveRecorders) <= 1
  /\ Cardinality(LiveStreams) <= 1
  /\ recorder.recordingBlockId # 0 =>
       recorder.blocks \cap {recorder.recordingBlockId} # {}
  /\ recorder.state # "IDLE" => recorder.recordingBlockId # 0

====
